---- MODULE Spec2Model ----
(***************************************************************************)
(* The real-time notification and connection-management subsystem of       *)
(* broskate2: ConnectionManager (app/websocket/connection_manager.py),     *)
(* NotificationService (app/websocket/notification_service.py) and the     *)
(* WebSocket endpoint (app/routes/websocket.py).                           *)
(*                                                                         *)
(* The program is a single asyncio event loop.  A coroutine runs without   *)
(* interruption from one `await` of an I/O operation to the next, so every *)
(* action below is: the I/O event the task is suspended on (accept, send,  *)
(* receive, close, authenticate), followed by all the synchronous code up  *)
(* to the next I/O await.  task[p].pc names the await the task is          *)
(* suspended on.                                                           *)
(***************************************************************************)
EXTENDS Integers, Sequences, FiniteSets, TLC

\* ------------------------------------------------------------------ bounds

\* Inbound frames one connection delivers to its session.
MaxInbound == 1
\* Highest reading of the wall clock (datetime.now()).
MaxClock == 2
\* Notifications created over a run of the interleaved system.
MaxCreated == 1
\* Other calls the application tasks make over a run.
MaxCalls == 1
\* Notifications created over a run of the store specifications; the clock
\* ticks once per notification there.
MaxStoreSends == 102
\* Of these, the notifications that may be created while a connection is open.
MaxEarly == 2
\* Inbound frames one session reads where the order of dispatch matters.
MaxDispatch == 2
\* The longest recipient list an originator is called with.
MaxList == 2

\* User identities the authentication collaborator can supply (integers).
Users == {0, 1}
\* Connection handles (WebSocket objects), one per endpoint invocation.
Handles == {"h1", "h2"}
\* Application tasks calling the notification service / the registry.
Callers == {"a1"}
\* A second application task, for a request that runs while another does.
Concurrent == {"a2"}
Procs == Handles \cup Callers \cup Concurrent

\* Python's None, where an Optional[int] user id is expected.
None == -1

\* f"user_{user_id}" (routes/websocket.py line 41)
UserChannel(u) == IF u = 0 THEN "user_0" ELSE IF u = 1 THEN "user_1" ELSE "user_n"
GlobalChannel == "global_notifications"
Channels == {UserChannel(u) : u \in Users} \cup {GlobalChannel, "shop_42"}

\* Credential tokens: none supplied (NoToken), one that fails validation
\* (BadToken), or one that authenticates as user u (the token u).
NoToken == -1
BadToken == -2
Tokens == {NoToken, BadToken} \cup Users

VARIABLES
    active_connections,  \* dict user_id -> list of handles
    user_sessions,       \* dict handle -> user_id
    subscriptions,       \* dict user_id -> set of channels
    sub_keys,            \* insertion order of the keys of subscriptions
    list_epoch,          \* identity of the list object held for a user
    notifications,       \* dict user_id -> list of notification dicts
    read_notifications,  \* dict user_id -> set of notification ids
    clock,               \* the wall clock
    created,             \* number of notification objects created so far
    transport,           \* per handle: "new", "open" or "closed"
    outbox,              \* per handle: the frames sent on it, in order
    observed,            \* the kinds of frame outbox records
    task,                \* per task: where it is suspended, and its locals
    hist                 \* history of the calls made (for stating properties)

vars == <<active_connections, user_sessions, subscriptions, sub_keys, list_epoch,
          notifications, read_notifications, clock, created, transport, outbox,
          observed, task, hist>>

\* ------------------------------------------------------------ dictionaries

DictSet(d, k, v) == [x \in (DOMAIN d) \cup {k} |-> IF x = k THEN v ELSE d[x]]
DictDel(d, k) == [x \in (DOMAIN d) \ {k} |-> d[x]]
\* d.get(k, default)
DictGet(d, k, default) == IF k \in DOMAIN d THEN d[k] ELSE default
EmptyDict == [x \in {} |-> 0]

\* list.remove(x): removes the first occurrence
RECURSIVE ListRemove(_, _)
ListRemove(l, x) ==
    IF l = <<>> THEN <<>>
    ELSE IF Head(l) = x THEN Tail(l)
    ELSE <<Head(l)>> \o ListRemove(Tail(l), x)

ListHas(l, x) == \E i \in 1..Len(l) : l[i] = x

\* Python truthiness of an Optional[int]: None and 0 are falsy.
Truthy(x) == x # None /\ x # 0

\* ---------------------------------------------------------------- messages

\* Outbound frames (json.dumps of a dict): the value of the "type" key, the
\* other keys' values (body), and which keys the dict has (fields).  The
\* "timestamp"/"message" texts of the acknowledgements carry no state and are
\* left out.
Msg(type, body) == [type |-> type, body |-> body, fields |-> type]
NoMsg == Msg("none", 0)
AckMsg == Msg("connection_established", 0)
SubMsg(channel) == Msg("subscription_confirmed", channel)
UnsubMsg(channel) == Msg("unsubscription_confirmed", channel)
PongMsg(timestamp) == Msg("pong", timestamp)
CountMsg(count) == Msg("unread_count", count)
CountUpdatedMsg(count) == Msg("unread_count_updated", count)
RecentMsg(l) == Msg("recent_notifications", l)
\* {"type": "notification", **notification}: the notification's own "type"
\* key comes second and replaces the "notification" tag.
NotificationMsg(n) == [type |-> n.type, body |-> n, fields |-> "notification"]
\* The broadcast frame of routes/websocket.py lines 127-134: its channel and
\* the caller's payload ("data").
BroadcastMsg(channel, data) == Msg("broadcast", <<channel, data>>)

\* ------------------------------------------------- the shared state, as one value

\* The synchronous code between two awaits is a function from the shared
\* state to the shared state; World is the value it is applied to.
World == [ac |-> active_connections, us |-> user_sessions, subs |-> subscriptions,
          subk |-> sub_keys, epoch |-> list_epoch, notifs |-> notifications,
          reads |-> read_notifications, hist |-> hist]

\* ConnectionManager.is_user_connected
is_user_connected(w, user_id) ==
    user_id \in DOMAIN w.ac /\ Len(w.ac[user_id]) > 0

\* ConnectionManager.get_connected_users
get_connected_users(w) == DOMAIN w.ac

RECURSIVE SumLen(_, _)
SumLen(d, keys) ==
    IF keys = {} THEN 0
    ELSE LET k == CHOOSE x \in keys : TRUE IN Len(d[k]) + SumLen(d, keys \ {k})

\* ConnectionManager.get_connection_count
get_connection_count(w) == SumLen(w.ac, DOMAIN w.ac)

\* disconnect with line 51-52 left out: an emptied list keeps its key.
DisconnectRemove_KeepsKey(w, websocket) ==
    LET user_id == DictGet(w.us, websocket, None) IN
    IF Truthy(user_id) /\ user_id \in DOMAIN w.ac
    THEN [w EXCEPT !.ac = DictSet(w.ac, user_id, ListRemove(w.ac[user_id], websocket))]
    ELSE w

\* ConnectionManager.disconnect, lines 48-52: the handle leaves its user's list,
\* and an emptied list is deleted (the deleted list object is a different one
\* from any list created for the user later: list_epoch).
DisconnectRemove(w, websocket) ==
    LET user_id == DictGet(w.us, websocket, None) IN
    IF Truthy(user_id) /\ user_id \in DOMAIN w.ac
    THEN LET l == ListRemove(w.ac[user_id], websocket) IN
         IF ~ListHas(w.ac[user_id], websocket)
         THEN \* list.remove raises ValueError
              [w EXCEPT !.hist.errors = @ \cup {"ValueError"}]
         ELSE IF l = <<>>
         THEN [w EXCEPT !.ac = DictDel(w.ac, user_id),
                        !.epoch = [w.epoch EXCEPT ![user_id] = @ + 1]]
         ELSE [w EXCEPT !.ac = DictSet(w.ac, user_id, l)]
    ELSE w

\* disconnect with lines 54-55 left out: the reverse map keeps the handle.
Disconnect_KeepsSession(w, websocket) ==
    LET w1 == DisconnectRemove(w, websocket) IN
    [w1 EXCEPT !.hist = [w1.hist EXCEPT !.disconnected = @ \cup {websocket}]]

\* disconnect that also forgets the subscriptions of a user whose last handle
\* it removes.
Disconnect_ClearsSubscriptions(w, websocket) ==
    LET user_id == DictGet(w.us, websocket, None)
        w1 == DisconnectRemove(w, websocket)
        w2 == IF user_id \in DOMAIN w1.subs /\ user_id \notin DOMAIN w1.ac
              THEN [w1 EXCEPT !.subs = DictSet(w1.subs, user_id, {})]
              ELSE w1
    IN [w2 EXCEPT !.us = DictDel(w2.us, websocket),
                  !.hist = [w2.hist EXCEPT !.disconnected = @ \cup {websocket}]]

\* ConnectionManager.disconnect
Disconnect(w, websocket) ==
    LET w1 == DisconnectRemove(w, websocket) IN
    [w1 EXCEPT !.us = DictDel(w1.us, websocket),
               !.hist = [w1.hist EXCEPT !.disconnected = @ \cup {websocket}]]

\* "for ws in disconnected_websockets: self.disconnect(ws)"
RECURSIVE DisconnectAll(_, _)
DisconnectAll(w, failed) ==
    IF failed = <<>> THEN w
    ELSE DisconnectAll(Disconnect(w, Head(failed)), Tail(failed))

\* ------------------------------------------------------ NotificationService

\* The size the per-user list is cut back to (notification_service.py line 66-67).
MaxStored == 100
\* get_notifications' default limit (line 150) and the limit of the
\* pending-notification flush (line 218).
DefaultLimit == 50
PendingLimit == 10

\* l[-k:]
LastK(l, k) == IF Len(l) <= k THEN l ELSE SubSeq(l, Len(l) - k + 1, Len(l))
\* l[:k]
FirstK(l, k) == IF Len(l) <= k THEN l ELSE SubSeq(l, 1, k)

\* f"notif_{datetime.now().timestamp()}_{user_id}"
NotificationId(ts, user_id) == <<ts, user_id>>

\* The notification dict of send_notification (lines 48-57).  serial stands
\* for the identity of the dict object; title and message are the texts, the
\* message a sequence of the pieces an f-string puts together.
Notification(serial, id_ts, ts, user_id, type, title, message, sender_id) ==
    [id |-> NotificationId(id_ts, user_id), type |-> type, title |-> title,
     message |-> message, sender_id |-> sender_id, timestamp |-> ts,
     read |-> FALSE, serial |-> serial]

\* Lines 60-67 with [:100] for [-100:]: the newest entry is the one dropped.
StoreAppend_KeepsFirst(notifs, user_id, notification) ==
    LET l == Append(DictGet(notifs, user_id, <<>>), notification) IN
    DictSet(notifs, user_id, FirstK(l, MaxStored))

\* Lines 60-67: append, then keep the last 100.
StoreAppend(notifs, user_id, notification) ==
    LET l == Append(DictGet(notifs, user_id, <<>>), notification) IN
    DictSet(notifs, user_id, IF Len(l) > MaxStored THEN LastK(l, MaxStored) ELSE l)

\* NotificationService.get_unread_count
get_unread_count(notifs, reads, user_id) ==
    LET l == DictGet(notifs, user_id, <<>>)
        r == DictGet(reads, user_id, {})
    IN Cardinality({i \in 1..Len(l) : l[i].id \notin r})

\* sorted(..., key=timestamp, reverse=True) is a stable sort: of two entries
\* with the same timestamp the one earlier in the list stays first.  So entry
\* a of the list comes before entry b in the result when it has the later
\* timestamp, or the same timestamp and a < b.  Timestamps are compared as
\* isoformat() strings, which order as the clock readings do.
SortedBefore(l, a, b) ==
    \/ l[a].timestamp > l[b].timestamp
    \/ (l[a].timestamp = l[b].timestamp /\ a < b)

SortRecent(l) ==
    LET n == Len(l)
        order == SortSeq([j \in 1..n |-> n + 1 - j], LAMBDA a, b : SortedBefore(l, a, b))
    IN [k \in 1..n |-> l[order[k]]]

\* get_notifications lines 157-158: the stored dicts get their "read" field set.
MarkReadStatus(l, r) == [i \in 1..Len(l) |-> [l[i] EXCEPT !.read = (l[i].id \in r)]]

\* The store after get_notifications(user_id, limit).
GetNotificationsStore(notifs, reads, user_id) ==
    IF user_id \in DOMAIN notifs
    THEN DictSet(notifs, user_id, MarkReadStatus(notifs[user_id], DictGet(reads, user_id, {})))
    ELSE notifs

\* get_notifications without the sort of line 161: stored order, oldest first.
get_notifications_Unsorted(notifs, reads, user_id, limit) ==
    LET l == MarkReadStatus(DictGet(notifs, user_id, <<>>), DictGet(reads, user_id, {}))
    IN FirstK(l, limit)

\* What get_notifications(user_id, limit) returns.
get_notifications(notifs, reads, user_id, limit) ==
    LET l == MarkReadStatus(DictGet(notifs, user_id, <<>>), DictGet(reads, user_id, {}))
    IN FirstK(SortRecent(l), limit)

\* The elements of the list get_notifications returns are the stored dict
\* objects (line 161 sorts and slices references); serial names the object.
StoredDicts(notifs) ==
    UNION {{notifs[u][j] : j \in 1..Len(notifs[u])} : u \in DOMAIN notifs}

\* A list of stored dicts as its holder sees it now: a dict still in the
\* store shows the "read" key lines 157-158 wrote last, a dict the store has
\* dropped (lines 66-67) stays as it was.
HeldList(notifs, l) ==
    IF l = <<>> THEN l
    ELSE LET stored == StoredDicts(notifs) IN
         [k \in 1..Len(l) |->
             IF \E n \in stored : n.serial = l[k].serial
             THEN CHOOSE n \in stored : n.serial = l[k].serial
             ELSE l[k]]

\* ------------------------------------------------------------------- tasks

\* The locals of a task.  pc: the await it is suspended on.  msg, ws, cont:
\* the frame of send_personal_message.  msg, to, epoch, idx, cur, failed,
\* cont: the frame of send_to_user (the list iterator is the list object,
\* named by to and epoch, and the number idx of items it has yielded).
\* recent: send_pending_notifications' recent_notifications, or the list a
\* caller of get_notifications holds: references to stored dicts.  channel, bpos,
\* bsize: broadcast_to_channel's dict iterator.  received: the type tags of
\* the inbound frames the session has read so far.  tried: the handles the
\* current send_to_user has called send_text on.  origin, attendees: the
\* type and texts of a list-based originator's notification, and the
\* recipients its loop has still to visit.
NoOrigin == [type |-> "-", title |-> <<>>, message |-> <<>>]

NewTask(p) ==
    [self |-> p, pc |-> "idle", user_id |-> None, token |-> NoToken,
     msg |-> NoMsg, ws |-> "-", to |-> None, epoch |-> 0, idx |-> 0, cur |-> "-",
     failed |-> <<>>, cont |-> "-", recent |-> <<>>, inbound |-> 0,
     channel |-> "-", bmsg |-> NoMsg, bpos |-> 0, bsize |-> 0,
     close_code |-> 0, authenticated |-> FALSE, call |-> 0, received |-> <<>>,
     tried |-> {}, origin |-> NoOrigin, attendees |-> <<>>]

Res(w, t) == [w |-> w, t |-> t]

\* A task outside send_personal_message, send_to_user and broadcast_to_channel
\* has none of their locals.
Unframed(t, pc) ==
    [NewTask(t.self) EXCEPT !.pc = pc, !.user_id = t.user_id, !.token = t.token,
                            !.inbound = t.inbound, !.close_code = t.close_code,
                            !.authenticated = t.authenticated,
                            !.received = t.received]

\* The task suspends on "await websocket.send_text(...)" in send_personal_message.
SendPersonalMessage(w, t, message, websocket, cont) ==
    Res(w, [t EXCEPT !.pc = "send_personal", !.msg = message, !.ws = websocket,
                     !.cont = cont, !.to = None, !.epoch = 0, !.idx = 0,
                     !.cur = "-", !.failed = <<>>])

RECURSIVE Continue(_, _, _)

\* send_to_user that begins with the first handle of the lowest connected
\* user's list, whoever the message is for.
SendToUser_LowestUser(w, t, message, user_id, cont) ==
    IF user_id \in DOMAIN w.ac /\ Len(w.ac[user_id]) > 0
    THEN LET u == CHOOSE x \in DOMAIN w.ac : \A y \in DOMAIN w.ac : x <= y IN
         Res(w, [t EXCEPT !.pc = "send_to_user", !.msg = message, !.to = user_id,
                          !.ws = "-",
                          !.epoch = w.epoch[user_id], !.idx = 1,
                          !.cur = w.ac[u][1], !.failed = <<>>, !.cont = cont,
                          !.tried = {}])
    ELSE Continue(w, t, cont)

\* ConnectionManager.send_to_user up to its first "await websocket.send_text".
SendToUser(w, t, message, user_id, cont) ==
    IF user_id \in DOMAIN w.ac /\ Len(w.ac[user_id]) > 0
    THEN Res(w, [t EXCEPT !.pc = "send_to_user", !.msg = message, !.to = user_id,
                          !.ws = "-",
                          !.epoch = w.epoch[user_id], !.idx = 1,
                          !.cur = w.ac[user_id][1], !.failed = <<>>, !.cont = cont,
                          !.tried = {}])
    ELSE Continue(w, t, cont)

\* ConnectionManager.subscribe_to_channel up to its await.
SubscribeToChannel(w, t, websocket, channel, cont) ==
    LET user_id == DictGet(w.us, websocket, None) IN
    IF Truthy(user_id)
    THEN SendPersonalMessage(
             [w EXCEPT !.subs[user_id] = @ \cup {channel},
                       !.hist.subscribed = @ \cup {<<websocket, channel>>},
                       !.hist.usersub = @ \cup {<<user_id, channel>>},
                       !.hist.subops = @ + 1],
             t, SubMsg(channel), websocket, cont)
    ELSE Continue(w, t, cont)

\* ConnectionManager.unsubscribe_from_channel up to its await.
UnsubscribeFromChannel(w, t, websocket, channel, cont) ==
    LET user_id == DictGet(w.us, websocket, None) IN
    IF Truthy(user_id) /\ channel \in DictGet(w.subs, user_id, {})
    THEN SendPersonalMessage(
             [w EXCEPT !.subs[user_id] = @ \ {channel},
                       !.hist.subscribed = @ \ {<<websocket, channel>>},
                       !.hist.subops = @ + 1],
             t, UnsubMsg(channel), websocket, cont)
    ELSE Continue(w, t, cont)

\* NotificationService.send_pending_notifications up to its first await.
\* recent_notifications holds the stored dicts; the frame that carries them
\* is serialised when it is sent, after the send of the count.
SendPendingNotifications(w, t, user_id, cont) ==
    LET unread_count == get_unread_count(w.notifs, w.reads, user_id)
        recent == get_notifications(w.notifs, w.reads, user_id, PendingLimit)
        w1 == [w EXCEPT !.notifs = GetNotificationsStore(w.notifs, w.reads, user_id)]
    IN SendToUser(w1, [t EXCEPT !.recent = recent], CountMsg(unread_count), user_id,
                  "pending_recent")

\* mark_as_read with line 183 moved before line 178: the count is taken
\* before the identifier is added.
MarkAsRead_CountsBefore(w, t, notification_id, user_id, cont) ==
    LET w1 == [w EXCEPT !.reads = DictSet(w.reads, user_id,
                                 DictGet(w.reads, user_id, {}) \cup {notification_id})]
        unread_count == get_unread_count(w.notifs, w.reads, user_id)
    IN IF is_user_connected(w1, user_id)
       THEN SendToUser(w1, t, CountUpdatedMsg(unread_count), user_id, cont)
       ELSE Continue(w1, t, cont)

\* NotificationService.mark_as_read up to its first await.
MarkAsRead(w, t, notification_id, user_id, cont) ==
    LET w1 == [w EXCEPT !.reads = DictSet(w.reads, user_id,
                                 DictGet(w.reads, user_id, {}) \cup {notification_id})]
        unread_count == get_unread_count(w1.notifs, w1.reads, user_id)
    IN IF is_user_connected(w1, user_id)
       THEN SendToUser(w1, t, CountUpdatedMsg(unread_count), user_id, cont)
       ELSE Continue(w1, t, cont)

\* mark_all_as_read that makes the read-set the set of the stored
\* identifiers, dropping what it held before.
MarkAllAsRead_Replaces(w, t, user_id, cont) ==
    LET l == DictGet(w.notifs, user_id, <<>>)
        w1 == [w EXCEPT !.reads = DictSet(w.reads, user_id,
                                          {l[i].id : i \in 1..Len(l)})]
    IN IF is_user_connected(w1, user_id)
       THEN SendToUser(w1, t, CountUpdatedMsg(0), user_id, cont)
       ELSE Continue(w1, t, cont)

\* NotificationService.mark_all_as_read up to its first await.
MarkAllAsRead(w, t, user_id, cont) ==
    LET l == DictGet(w.notifs, user_id, <<>>)
        w1 == [w EXCEPT !.reads = DictSet(w.reads, user_id,
                         DictGet(w.reads, user_id, {}) \cup {l[i].id : i \in 1..Len(l)})]
    IN IF is_user_connected(w1, user_id)
       THEN SendToUser(w1, t, CountUpdatedMsg(0), user_id, cont)
       ELSE Continue(w1, t, cont)

\* ConnectionManager.broadcast_to_channel: the next step of
\* "for user_id, channels in self.subscriptions.items()".  The dict iterator
\* raises RuntimeError when the dict has changed size since the loop began.
\* The RuntimeError leaves broadcast_to_channel and fails the request.  The
\* history keeps how each broadcast ended, and whether connections and
\* subscriptions stayed as they were while it ran.
RECURSIVE BroadcastNext(_, _)

BroadcastNext(w, t) ==
    IF Len(w.subk) # t.bsize
    THEN Res([w EXCEPT !.hist.bcalls[t.call].raised = TRUE], Unframed(t, "idle"))
    ELSE IF t.bpos < Len(w.subk)
    THEN LET user_id == w.subk[t.bpos + 1]
             t1 == [t EXCEPT !.bpos = @ + 1]
         IN IF t.channel \in w.subs[user_id]
            THEN SendToUser(w, t1, t.bmsg, user_id, "broadcast_next")
            ELSE BroadcastNext(w, t1)
    ELSE LET c == w.hist.bcalls[t.call] IN
         Res([w EXCEPT !.hist.bcalls[t.call].done = TRUE,
                       !.hist.bcalls[t.call].quiet =
                           /\ c.registered = w.hist.registered
                           /\ c.disconnected = w.hist.disconnected
                           /\ c.subops = w.hist.subops],
             Unframed(t, "idle"))

\* The synchronous code that follows a completed await, by the place the
\* task resumes at.
Continue(w, t, cont) ==
    CASE cont = "subscribe_user" ->
           \* routes/websocket.py line 41
           SubscribeToChannel(w, t, t.self, UserChannel(t.user_id), "subscribe_global")
      [] cont = "subscribe_global" ->
           \* line 42
           SubscribeToChannel(w, t, t.self, GlobalChannel, "pending")
      [] cont = "pending" ->
           \* line 45
           SendPendingNotifications(w, t, t.user_id, "receive")
      [] cont = "pending_recent" ->
           \* notification_service.py lines 229-233
           IF t.recent # <<>>
           THEN SendToUser(w, t, RecentMsg(t.recent), t.user_id, "receive")
           ELSE Continue(w, t, "receive")
      [] cont = "receive" ->
           \* line 50: await websocket.receive_text()
           Res(w, Unframed(t, "receive"))
      [] cont = "broadcast_next" -> BroadcastNext(w, t)
      [] cont = "return_mark" ->
           \* mark_all_as_read returns; the history keeps what a
           \* get_unread_count called next gives
           LET m == w.hist.marks[t.call]
           IN Res([w EXCEPT !.hist.marks[t.call].done = TRUE,
                            !.hist.marks[t.call].unread =
                                get_unread_count(w.notifs, w.reads, m.user_id)],
                  Unframed(t, "idle"))
      [] cont = "return" ->
           \* send_notification line 79: return notification_id
           \* to the application, or to the loop of the originator that
           \* made the call (lines 87, 120, 138), which ends with its list
           LET w1 == IF t.call > 0
                     THEN [w EXCEPT !.hist.calls[t.call].done = TRUE,
                                    !.hist.calls[t.call].result = w.hist.calls[t.call].id]
                     ELSE w
           IN IF t.origin = NoOrigin THEN Res(w1, Unframed(t, "idle"))
              ELSE IF t.attendees = <<>>
              THEN Res([w1 EXCEPT !.hist.fanouts[Len(w1.hist.fanouts)].done = TRUE],
                       Unframed(t, "idle"))
              ELSE Res(w1, [Unframed(t, "originate") EXCEPT !.origin = t.origin,
                                                           !.attendees = t.attendees])

\* A finally clause that disconnects every handle of the session's user.
EndSession_DisconnectsUser(w, t) ==
    Res(DisconnectAll(Disconnect(w, t.self), DictGet(w.ac, t.user_id, <<>>)),
        Unframed(t, "done"))

\* The "finally: manager.disconnect(websocket)" that ends every session.
EndSession(w, t) == Res(Disconnect(w, t.self), Unframed(t, "done"))

\* ------------------------------------------------------------------ actions

\* Notification types the callers use (NotificationType), and a type tag no
\* handler knows.
NotificationTypes == {"info", "user_follow"}

\* A "channel" or "notification_id" that the tests "if channel:" and
\* "if notification_id:" (routes/websocket.py lines 81, 87, 93) take for
\* absent: the key is missing, or its value is null, false, 0, "", [] or {}.
NoChannel == ""
NoNotificationId == <<>>

\* Inbound frames a client sends: json objects with a "type" tag.
\* The notification ids a client may name in mark_notification_read.
ClientIds ==
    {NotificationId(ts, u) : ts \in 0..MaxClock, u \in Users}

InboundMsgs ==
    {[type |-> "ping", arg |-> 7], [type |-> "get_unread_count", arg |-> 0],
     [type |-> "bogus", arg |-> 0]}
    \cup {[type |-> ty, arg |-> c] : ty \in {"subscribe", "unsubscribe"},
                                     c \in {"shop_42", GlobalChannel}}
    \cup {[type |-> "mark_notification_read", arg |-> id] : id \in ClientIds}
    \cup {[type |-> ty, arg |-> NoChannel] : ty \in {"subscribe", "unsubscribe"}}
    \cup {[type |-> "mark_notification_read", arg |-> NoNotificationId]}

\* A step of task p ends: the shared state is as the step left it, and every
\* task that holds a list of stored dicts sees them as they are now.
Commit(p, r) ==
    /\ active_connections' = r.w.ac
    /\ user_sessions' = r.w.us
    /\ subscriptions' = r.w.subs
    /\ sub_keys' = r.w.subk
    /\ list_epoch' = r.w.epoch
    /\ notifications' = r.w.notifs
    /\ read_notifications' = r.w.reads
    /\ hist' = r.w.hist
    /\ task' = [q \in Procs |->
                   LET tq == IF q = p THEN r.t ELSE task[q]
                   IN [tq EXCEPT !.recent = HeldList(r.w.notifs, @)]]

\* The authentication collaborator (app.utils.auth.get_current_user_ws, which
\* the repository imports but does not define): authenticate(token) gives the
\* identity the token stands for, or fails.  A failure and a None result take
\* the same path of the endpoint (close 4003), so both are None here.
get_current_user_ws(token) == IF token \in Users THEN token ELSE None

\* websocket_endpoint with "if not token" left out: a missing token goes on to
\* the accept like a valid one.
StartSession_AcceptsNoToken(h, users, tokens) ==
    /\ task[h].pc = "idle"
    /\ \E user_id \in users, token \in tokens :
         LET t == [task[h] EXCEPT !.user_id = user_id, !.token = token]
         IN Commit(h, Res(World,
                IF token = NoToken THEN [t EXCEPT !.pc = "accept"]
                ELSE [t EXCEPT !.authenticated = TRUE, !.pc = "auth"]))
    /\ UNCHANGED <<clock, created, transport, outbox, observed>>

\* websocket_endpoint is called for a new connection and runs to its first
\* await (lines 20-28): "await websocket.close" when no token is supplied
\* (4001, the token is not validated), else the call of the authentication
\* collaborator, "await get_current_user_ws(token)".  The field
\* authenticated tells that the collaborator was called.
StartSession(h, users, tokens) ==
    /\ task[h].pc = "idle"
    /\ \E user_id \in users, token \in tokens :
         LET t == [task[h] EXCEPT !.user_id = user_id, !.token = token]
         IN Commit(h, Res(World,
                IF token = NoToken THEN [t EXCEPT !.pc = "close_4001"]
                ELSE [t EXCEPT !.authenticated = TRUE, !.pc = "auth"]))
    /\ UNCHANGED <<clock, created, transport, outbox, observed>>

\* The authentication without "current_user['id'] != user_id": any valid
\* token opens a connection under the claimed user id.
Authenticated_SkipsIdentityCheck(h) ==
    /\ task[h].pc = "auth"
    /\ LET ok == get_current_user_ws(task[h].token) # None
       IN Commit(h, Res(World, [task[h] EXCEPT !.pc = IF ok THEN "accept"
                                                      ELSE "close_4003"]))
    /\ UNCHANGED <<clock, created, transport, outbox, observed>>

\* "await get_current_user_ws(token)" returns or raises (lines 28-35): the
\* endpoint goes to "await websocket.close" with 4003 when the token fails
\* validation or authenticates another user, else to the
\* "await websocket.accept()" of ConnectionManager.connect (line 38).
Authenticated(h) ==
    /\ task[h].pc = "auth"
    /\ LET current_user == get_current_user_ws(task[h].token)
           ok == current_user # None /\ current_user = task[h].user_id
       IN Commit(h, Res(World, [task[h] EXCEPT !.pc = IF ok THEN "accept"
                                                      ELSE "close_4003"]))
    /\ UNCHANGED <<clock, created, transport, outbox, observed>>

\* "await websocket.close(code=...)" returns; the endpoint returns through
\* its finally clause (lines 23-24, 30-35, 62-63).
CloseUnauthenticated(h) ==
    /\ task[h].pc \in {"close_4001", "close_4003"}
    /\ LET t == [task[h] EXCEPT !.close_code =
                      IF task[h].pc = "close_4001" THEN 4001 ELSE 4003]
       IN Commit(h, EndSession(World, t))
    /\ transport' = [transport EXCEPT ![h] = "closed"]
    /\ UNCHANGED <<clock, created, outbox, observed>>

\* ConnectionManager.connect lines 25-35: the registration.
Register(w, websocket, user_id) ==
    [w EXCEPT !.ac = DictSet(w.ac, user_id,
                             Append(DictGet(w.ac, user_id, <<>>), websocket)),
              !.us = DictSet(w.us, websocket, user_id),
              !.subs = IF user_id \in DOMAIN w.subs THEN w.subs
                       ELSE DictSet(w.subs, user_id, {}),
              !.subk = IF user_id \in DOMAIN w.subs THEN w.subk
                       ELSE Append(w.subk, user_id),
              !.hist = [w.hist EXCEPT !.registered = @ \cup {websocket}]]

\* "await websocket.accept()" returns in ConnectionManager.connect: the handle
\* is registered and the task goes to send the acknowledgement.  When the
\* client has gone the accept raises and the endpoint ends through finally.
Accept(h) ==
    /\ task[h].pc = "accept"
    /\ IF transport[h] = "closed"
       THEN /\ Commit(h, EndSession(World, task[h]))
            /\ UNCHANGED transport
       ELSE /\ Commit(h, SendPersonalMessage(Register(World, h, task[h].user_id),
                                             task[h], AckMsg, h, "subscribe_user"))
            /\ transport' = [transport EXCEPT ![h] = "open"]
    /\ UNCHANGED <<clock, created, outbox, observed>>

\* websocket.send_text(json.dumps(message)) succeeds: the frame is on the
\* connection.  outbox keeps the frames of the kinds under observation.
Sent(ob, websocket, message) ==
    IF message.fields \in observed
    THEN [ob EXCEPT ![websocket] = Append(@, message)]
    ELSE ob

\* "await websocket.send_text(...)" of send_personal_message completes: the
\* frame is sent, or the send raises and the handle is disconnected.
SendPersonal(p) ==
    /\ task[p].pc = "send_personal"
    /\ LET t == task[p] IN
       IF transport[t.ws] = "open"
       THEN /\ outbox' = Sent(outbox, t.ws, t.msg)
            /\ Commit(p, Continue(World, t, t.cont))
       ELSE /\ outbox' = outbox
            /\ Commit(p, Continue(Disconnect(World, t.ws), t, t.cont))
    /\ UNCHANGED <<clock, created, transport, observed>>

\* The list send_to_user's "for websocket in self.active_connections[user_id]"
\* iterates: the list object the loop began with, as it is now.
IteratedList(w, t) ==
    IF t.epoch = w.epoch[t.to] /\ t.to \in DOMAIN w.ac THEN w.ac[t.to] ELSE <<>>

\* After one send of send_to_user: the next item of the list iterator, or
\* the end of the loop and the clean-up of the handles whose send failed.
\* json.dumps(message) runs again for each handle (line 73): the frame of the
\* recent list is made of the stored dicts as they are at that send.
SendToUserAdvance(w, t) ==
    LET l == IteratedList(w, t) IN
    IF t.idx < Len(l)
    THEN Res(w, [t EXCEPT !.idx = @ + 1, !.cur = l[t.idx + 1],
                          !.msg = IF t.msg.fields = "recent_notifications"
                                  THEN RecentMsg(HeldList(w.notifs, t.recent))
                                  ELSE @])
    ELSE Continue(DisconnectAll(w, t.failed), t, t.cont)

\* send_to_user without the try/except of lines 72-76: a failed send_text
\* leaves send_to_user and its caller.
SendToUserStep_Propagates(p) ==
    /\ task[p].pc = "send_to_user"
    /\ LET t == task[p] IN
       IF transport[t.cur] = "open"
       THEN /\ outbox' = Sent(outbox, t.cur, t.msg)
            /\ Commit(p, SendToUserAdvance(World,
                                           [t EXCEPT !.tried = @ \cup {t.cur}]))
       ELSE /\ outbox' = outbox
            /\ Commit(p, Res([World EXCEPT !.hist.errors = @ \cup {"SendError"}],
                             Unframed(t, IF p \in Handles THEN "done" ELSE "idle")))
    /\ UNCHANGED <<clock, created, transport, observed>>

\* One "await websocket.send_text(...)" of send_to_user completes.
SendToUserStep(p) ==
    /\ task[p].pc = "send_to_user"
    /\ LET t == task[p] IN
       IF transport[t.cur] = "open"
       THEN /\ outbox' = Sent(outbox, t.cur, t.msg)
            /\ Commit(p, SendToUserAdvance(World,
                                           [t EXCEPT !.tried = @ \cup {t.cur}]))
       ELSE /\ outbox' = outbox
            /\ Commit(p, SendToUserAdvance(World,
                                           [t EXCEPT !.failed = Append(@, t.cur),
                                                     !.tried = @ \cup {t.cur}]))
    /\ UNCHANGED <<clock, created, transport, observed>>

\* handle_websocket_message answering an unknown type tag with an error frame.
HandleMessage_RepliesError(w, t, m) ==
    CASE m.type = "ping" ->
           SendPersonalMessage(w, t, PongMsg(m.arg), t.self, "receive")
      [] m.type = "subscribe" ->
           IF m.arg # NoChannel
           THEN SubscribeToChannel(w, t, t.self, m.arg, "receive")
           ELSE Continue(w, t, "receive")
      [] m.type = "unsubscribe" ->
           IF m.arg # NoChannel
           THEN UnsubscribeFromChannel(w, t, t.self, m.arg, "receive")
           ELSE Continue(w, t, "receive")
      [] m.type = "mark_notification_read" ->
           IF m.arg # NoNotificationId
           THEN MarkAsRead(w, t, m.arg, t.user_id, "receive")
           ELSE Continue(w, t, "receive")
      [] m.type = "get_unread_count" ->
           SendPersonalMessage(w, t,
               CountMsg(get_unread_count(w.notifs, w.reads, t.user_id)),
               t.self, "receive")
      [] OTHER -> SendPersonalMessage(w, t, Msg("error", 0), t.self, "receive")

\* handle_websocket_message answering get_unread_count through send_to_user:
\* the count goes to every handle of the user.
HandleMessage_CountToUser(w, t, m) ==
    CASE m.type = "ping" ->
           SendPersonalMessage(w, t, PongMsg(m.arg), t.self, "receive")
      [] m.type = "subscribe" ->
           IF m.arg # NoChannel
           THEN SubscribeToChannel(w, t, t.self, m.arg, "receive")
           ELSE Continue(w, t, "receive")
      [] m.type = "unsubscribe" ->
           IF m.arg # NoChannel
           THEN UnsubscribeFromChannel(w, t, t.self, m.arg, "receive")
           ELSE Continue(w, t, "receive")
      [] m.type = "mark_notification_read" ->
           IF m.arg # NoNotificationId
           THEN MarkAsRead(w, t, m.arg, t.user_id, "receive")
           ELSE Continue(w, t, "receive")
      [] m.type = "get_unread_count" ->
           SendToUser(w, t, CountMsg(get_unread_count(w.notifs, w.reads, t.user_id)),
                      t.user_id, "receive")
      [] OTHER -> Continue(w, t, "receive")

\* handle_websocket_message up to its first await.  A subscribe or
\* unsubscribe without a truthy "channel" (lines 81, 87) and a
\* mark_notification_read without a truthy "notification_id" (line 93) are
\* skipped: the session goes back to receive_text.
HandleMessage(w, t, m) ==
    CASE m.type = "ping" ->
           SendPersonalMessage(w, t, PongMsg(m.arg), t.self, "receive")
      [] m.type = "subscribe" ->
           IF m.arg # NoChannel
           THEN SubscribeToChannel(w, t, t.self, m.arg, "receive")
           ELSE Continue(w, t, "receive")
      [] m.type = "unsubscribe" ->
           IF m.arg # NoChannel
           THEN UnsubscribeFromChannel(w, t, t.self, m.arg, "receive")
           ELSE Continue(w, t, "receive")
      [] m.type = "mark_notification_read" ->
           IF m.arg # NoNotificationId
           THEN MarkAsRead(w, t, m.arg, t.user_id, "receive")
           ELSE Continue(w, t, "receive")
      [] m.type = "get_unread_count" ->
           SendPersonalMessage(w, t,
               CountMsg(get_unread_count(w.notifs, w.reads, t.user_id)),
               t.self, "receive")
      [] OTHER -> Continue(w, t, "receive")

\* "await websocket.receive_text()" returns a frame that parses (line 50-53).
ReceiveUpTo(h, msgs, max_inbound) ==
    /\ task[h].pc = "receive"
    /\ task[h].inbound < max_inbound
    /\ \E m \in msgs :
         Commit(h, HandleMessage(World,
                                 [task[h] EXCEPT !.inbound = @ + 1,
                                                 !.received = Append(@, m.type)],
                                 m))
    /\ UNCHANGED <<clock, created, transport, outbox, observed>>

Receive(h, msgs) == ReceiveUpTo(h, msgs, MaxInbound)

\* Frames outside what the dispatch expects: text json.loads rejects
\* (line 57), a json value that is no object (message_data.get, line 69), a
\* subscribe or unsubscribe whose "channel" is a list or an object that is
\* not empty, a mark_notification_read whose "notification_id" is a list or
\* an object that is not empty.  (An empty list or object is falsy: such a
\* frame is one of InboundMsgs, with NoChannel or NoNotificationId.)
MalformedFrames ==
    {"not_json", "not_object", "unhashable_channel", "unhashable_notification_id"}

\* Whether reading the frame on the handle raises.  subscribe_to_channel and
\* unsubscribe_from_channel reach set.add and "in" (connection_manager.py
\* lines 92 and 104) only for a handle the reverse map gives a truthy user
\* id; for user 0 and for a handle already unregistered they do nothing.
DispatchRaises(w, websocket, frame) ==
    frame = "unhashable_channel" => Truthy(DictGet(w.us, websocket, None))

\* What the dispatch of a frame has done when it raises.  mark_as_read
\* creates the user's read-set (lines 175-176) before set.add raises; the
\* other frames raise before any change.
RaisingDispatch(w, user_id, frame) ==
    IF frame = "unhashable_notification_id"
    THEN [w EXCEPT !.reads = DictSet(w.reads, user_id, DictGet(w.reads, user_id, {}))]
    ELSE w

\* receive_text returns a frame of MalformedFrames.  When json.loads rejects
\* it (line 57) or its dispatch raises (line 59) the session ends through
\* finally; a frame whose dispatch does nothing leaves the session in its
\* receive loop.
ReceiveMalformed(h, frames) ==
    /\ task[h].pc = "receive"
    /\ task[h].inbound < MaxInbound
    /\ \E frame \in frames :
         LET t == [task[h] EXCEPT !.inbound = @ + 1, !.received = Append(@, frame)]
         IN IF DispatchRaises(World, h, frame)
            THEN /\ Commit(h, EndSession(RaisingDispatch(World, task[h].user_id, frame), t))
                 /\ transport' = [transport EXCEPT ![h] = "closed"]
            ELSE /\ Commit(h, Continue(World, t, "receive"))
                 /\ UNCHANGED transport
    /\ UNCHANGED <<clock, created, outbox, observed>>

\* receive_text raises WebSocketDisconnect (line 55).
ReceiveDisconnect(h) ==
    /\ task[h].pc = "receive"
    /\ transport[h] = "closed"
    /\ Commit(h, EndSession(World, task[h]))
    /\ UNCHANGED <<clock, created, transport, outbox, observed>>

\* The remote end closes the connection, or the connection breaks.
ClientClose(h) ==
    /\ task[h].pc \notin {"idle", "done"}
    /\ transport[h] # "closed"
    /\ transport' = [transport EXCEPT ![h] = "closed"]
    /\ UNCHANGED <<active_connections, user_sessions, subscriptions, sub_keys,
                   list_epoch, notifications, read_notifications, clock, created,
                   outbox, observed, task, hist>>

\* ------------------------------------------------- calls of application tasks

\* NotificationService.send_notification up to its first await.  The two
\* datetime.now() readings (lines 46 and 55) may straddle a tick of the clock.
SendNotification(w, t, serial, id_ts, ts, user_id, type, title, message, sender_id, persistent) ==
    LET notification == Notification(serial, id_ts, ts, user_id, type, title, message,
                                     sender_id)
        w1 == IF persistent
              THEN [w EXCEPT !.notifs = StoreAppend(w.notifs, user_id, notification)]
              ELSE w
        w2 == [w1 EXCEPT !.hist.calls = Append(@,
                  [serial |-> serial, user_id |-> user_id, persistent |-> persistent,
                   connected |-> is_user_connected(w, user_id),
                   handles |-> DictGet(w.ac, user_id, <<>>), done |-> FALSE,
                   id |-> notification.id, result |-> <<>>])]
        t1 == [t EXCEPT !.call = Len(w2.hist.calls)]
    IN IF is_user_connected(w2, user_id)
       THEN SendToUser(w2, t1, NotificationMsg(notification), user_id, "return")
       ELSE Continue(w2, t1, "return")

\* A caller inside the application calls send_notification(user_id, "info",
\* "t", "m", persistent=...) directly: no data, and sender_id left at its
\* default None.
CallSendNotification(a, users, persistents, ticks1, ticks2, max_created, max_clock) ==
    /\ task[a].pc = "idle"
    /\ created < max_created
    /\ \E user_id \in users, persistent \in persistents, adv1 \in ticks1, adv2 \in ticks2 :
         /\ clock + adv1 + adv2 <= max_clock
         /\ clock' = clock + adv1 + adv2
         /\ Commit(a, SendNotification(World, task[a], created + 1, clock + adv1,
                                       clock + adv1 + adv2, user_id, "info", "t",
                                       <<"m">>, None, persistent))
    /\ created' = created + 1
    /\ UNCHANGED <<transport, outbox, observed>>

\* The json bodies POST /notify/{user_id} is called with.
RouteNotifications == {[k \in {"title", "message"} |-> IF k = "title" THEN "t" ELSE "m"]}

\* The route POST /notify/{user_id} (send_notification_to_user): type, title
\* and message come from the body with their defaults, the sender is the
\* authenticated caller, and persistent is never passed, so the notification
\* is always stored.
CallSendNotificationToUser(a, users, senders, bodies, ticks1, ticks2, max_created, max_clock) ==
    /\ task[a].pc = "idle"
    /\ created < max_created
    /\ \E user_id \in users, current_user \in senders, notification \in bodies,
          adv1 \in ticks1, adv2 \in ticks2 :
         /\ clock + adv1 + adv2 <= max_clock
         /\ clock' = clock + adv1 + adv2
         /\ Commit(a, SendNotification(World, task[a], created + 1, clock + adv1,
                                       clock + adv1 + adv2, user_id,
                                       DictGet(notification, "type", "info"),
                                       DictGet(notification, "title", "New Notification"),
                                       <<DictGet(notification, "message", "")>>,
                                       current_user, TRUE))
    /\ created' = created + 1
    /\ UNCHANGED <<transport, outbox, observed>>

\* NotificationService.send_follow_notification up to its first await.
SendFollowNotification(w, t, serial, id_ts, ts, follower_id, followed_user_id, follower_username) ==
    SendNotification(w, t, serial, id_ts, ts, followed_user_id, "user_follow",
                     "New Follower", <<follower_username, " started following you!">>,
                     follower_id, TRUE)

\* The application calls send_follow_notification(follower_id,
\* followed_user_id, follower_username).
CallSendFollowNotification(a, followers, followed, usernames, ticks, max_created, max_clock) ==
    /\ task[a].pc = "idle"
    /\ created < max_created
    /\ \E follower_id \in followers, followed_user_id \in followed,
          follower_username \in usernames, adv \in ticks :
         /\ clock + adv <= max_clock
         /\ clock' = clock + adv
         /\ Commit(a, SendFollowNotification(World, task[a], created + 1, clock + adv,
                                             clock + adv, follower_id,
                                             followed_user_id, follower_username))
    /\ created' = created + 1
    /\ UNCHANGED <<transport, outbox, observed>>

\* An originator that sends to the first recipient of its list only.
OriginatorSend_FirstOnly(w, t, serial, id_ts, ts) ==
    IF t.attendees = <<>>
    THEN Res([w EXCEPT !.hist.fanouts[Len(w.hist.fanouts)].done = TRUE],
             Unframed(t, "idle"))
    ELSE SendNotification(w, [t EXCEPT !.attendees = <<>>], serial, id_ts, ts,
                          Head(t.attendees), t.origin.type, t.origin.title,
                          t.origin.message, None, TRUE)

\* One turn of an originator's "for user_id in ...: await
\* self.send_notification(...)": the next recipient is sent the notification
\* (persistent, without sender), or the list is exhausted and the originator
\* returns.
OriginatorSend(w, t, serial, id_ts, ts) ==
    IF t.attendees = <<>>
    THEN Res([w EXCEPT !.hist.fanouts[Len(w.hist.fanouts)].done = TRUE],
             Unframed(t, "idle"))
    ELSE SendNotification(w, [t EXCEPT !.attendees = Tail(@)], serial, id_ts, ts,
                          Head(t.attendees), t.origin.type, t.origin.title,
                          t.origin.message, None, TRUE)

\* NotificationService.send_event_notification up to its first await.
SendEventNotification(w, t, serial, id_ts, ts, event_data, attendee_ids) ==
    LET title == <<"Event Update: ", DictGet(event_data, "title", "Skate Event")>>
        message == <<"Event on ", DictGet(event_data, "date", "TBD"), " has been updated">>
    IN OriginatorSend(w, [t EXCEPT !.origin = [type |-> "event_invite", title |-> title,
                                               message |-> message],
                                   !.attendees = attendee_ids],
                      serial, id_ts, ts)

\* NotificationService.send_spot_notification up to its first await.
SendSpotNotification(w, t, serial, id_ts, ts, spot_data, nearby_user_ids) ==
    LET title == <<"New Spot: ", DictGet(spot_data, "name", "Skate Spot")>>
        message == <<"A new skate spot was added near you!">>
    IN OriginatorSend(w, [t EXCEPT !.origin = [type |-> "spot_update", title |-> title,
                                               message |-> message],
                                   !.attendees = nearby_user_ids],
                      serial, id_ts, ts)

\* NotificationService.send_shop_notification up to its first await.
SendShopNotification(w, t, serial, id_ts, ts, shop_data, member_ids) ==
    LET title == <<"Shop Update: ", DictGet(shop_data, "name", "Skate Shop")>>
        message == <<DictGet(shop_data, "announcement", "New update from your shop!")>>
    IN OriginatorSend(w, [t EXCEPT !.origin = [type |-> "shop_update", title |-> title,
                                               message |-> message],
                                   !.attendees = member_ids],
                      serial, id_ts, ts)

\* The recipient lists of at most n users.
RECURSIVE ListsUpTo(_)
ListsUpTo(n) ==
    IF n = 0 THEN {<<>>}
    ELSE ListsUpTo(n - 1) \cup {Append(l, u) : l \in ListsUpTo(n - 1), u \in Users}

\* The dict the originators are given: it has some of the keys they read
\* ("title", "name") and lacks the others ("date", "announcement").
OriginatorData == {[k \in {"title", "name"} |-> "x"]}

\* The application calls one of the list-based originators.  The history
\* keeps the list it was called with.
CallOriginator(a, kinds, lists, datas) ==
    /\ task[a].pc = "idle"
    /\ hist.ncalls < MaxCalls
    /\ \E kind \in kinds, ids \in lists, data \in datas :
         LET w == [World EXCEPT !.hist.ncalls = @ + 1,
                                !.hist.fanouts = Append(@, [kind |-> kind, ids |-> ids,
                                                            first |-> created + 1,
                                                            done |-> FALSE])]
             t == task[a]
         IN /\ Commit(a, CASE kind = "event" ->
                                  SendEventNotification(w, t, created + 1, clock, clock,
                                                        data, ids)
                           [] kind = "spot" ->
                                  SendSpotNotification(w, t, created + 1, clock, clock,
                                                       data, ids)
                           [] kind = "shop" ->
                                  SendShopNotification(w, t, created + 1, clock, clock,
                                                       data, ids))
            /\ created' = IF ids = <<>> THEN created ELSE created + 1
    /\ UNCHANGED <<clock, transport, outbox, observed>>

\* send_notification has returned to the originator's loop, which goes on to
\* its next recipient without an await in between.
OriginateNext(a) ==
    /\ task[a].pc = "originate"
    /\ Commit(a, OriginatorSend(World, task[a], created + 1, clock, clock))
    /\ created' = created + 1
    /\ UNCHANGED <<clock, transport, outbox, observed>>

\* The application calls broadcast_to_channel (routes/websocket.py line 137).
CallBroadcast(a, channels) ==
    /\ task[a].pc = "idle"
    /\ hist.ncalls < MaxCalls
    /\ \E channel \in channels :
         LET data == hist.ncalls + 1
             w == [World EXCEPT
                      !.hist.ncalls = data,
                      !.hist.bcalls = Append(@,
                          [channel |-> channel, data |-> data,
                           users |-> {u \in DOMAIN subscriptions :
                                         channel \in subscriptions[u]},
                           handles |-> active_connections,
                           subscribed |-> hist.subscribed,
                           registered |-> hist.registered,
                           disconnected |-> hist.disconnected,
                           subops |-> hist.subops,
                           done |-> FALSE, raised |-> FALSE, quiet |-> FALSE])]
             t == [task[a] EXCEPT !.channel = channel,
                                  !.bmsg = BroadcastMsg(channel, data),
                                  !.bpos = 0, !.bsize = Len(sub_keys),
                                  !.call = Len(hist.bcalls) + 1]
         IN Commit(a, BroadcastNext(w, t))
    /\ UNCHANGED <<clock, created, transport, outbox, observed>>

\* The application calls mark_all_as_read(user_id).  The history keeps the
\* user's stored identifiers and unread count of the beginning of the call.
CallMarkAllAsRead(a, users) ==
    /\ task[a].pc = "idle"
    /\ hist.ncalls < MaxCalls
    /\ \E user_id \in users :
         LET l == DictGet(notifications, user_id, <<>>)
             w == [World EXCEPT
                      !.hist.ncalls = @ + 1,
                      !.hist.marks = Append(@,
                          [user_id |-> user_id,
                           ids |-> {l[i].id : i \in 1..Len(l)},
                           before |-> get_unread_count(notifications,
                                                       read_notifications, user_id),
                           connected |-> is_user_connected(World, user_id),
                           done |-> FALSE, unread |-> None])]
             t == [task[a] EXCEPT !.call = Len(hist.marks) + 1]
         IN Commit(a, MarkAllAsRead(w, t, user_id, "return_mark"))
    /\ UNCHANGED <<clock, created, transport, outbox, observed>>

\* The application calls get_notifications(user_id, limit); the task holds
\* the returned list until ReturnResult.  Its elements are the stored dicts:
\* while it is held it shows what a later get_notifications writes in them.
CallGetNotifications(a, users, limits) ==
    /\ task[a].pc = "idle"
    /\ \E user_id \in users, limit \in limits :
         LET w == [World EXCEPT !.notifs = GetNotificationsStore(notifications,
                                              read_notifications, user_id)]
             t == [task[a] EXCEPT !.pc = "got", !.to = user_id, !.idx = limit,
                       !.recent = get_notifications(notifications, read_notifications,
                                                    user_id, limit)]
         IN Commit(a, Res(w, t))
    /\ UNCHANGED <<clock, created, transport, outbox, observed>>

\* The caller of get_notifications is done with the list.
ReturnResult(a) ==
    /\ task[a].pc = "got"
    /\ Commit(a, Res(World, Unframed(task[a], "idle")))
    /\ UNCHANGED <<clock, created, transport, outbox, observed>>

\* ----------------------------------------------------------- specification

\* The kinds of frame the program sends.
FrameKinds == {"connection_established", "subscription_confirmed",
               "unsubscription_confirmed", "pong", "unread_count",
               "unread_count_updated", "recent_notifications", "notification",
               "broadcast"}

InitObserving(kinds) ==
    /\ active_connections = EmptyDict
    /\ user_sessions = EmptyDict
    /\ subscriptions = EmptyDict
    /\ sub_keys = <<>>
    /\ list_epoch = [u \in Users |-> 0]
    /\ notifications = EmptyDict
    /\ read_notifications = EmptyDict
    /\ clock = 0
    /\ created = 0
    /\ transport = [h \in Handles |-> "new"]
    /\ outbox = [h \in Handles |-> <<>>]
    /\ observed = kinds
    /\ task = [p \in Procs |-> NewTask(p)]
    /\ hist = [disconnected |-> {}, registered |-> {}, calls |-> <<>>, ncalls |-> 0,
               errors |-> {}, subscribed |-> {}, usersub |-> {}, subops |-> 0,
               bcalls |-> <<>>, marks |-> <<>>, fanouts |-> <<>>]

Init == InitObserving({"notification"})

\* The inbound frames of Spec: a ping, a frame with a type tag no branch
\* knows, and the frames the dispatch skips for want of an argument.
SpecMsgs ==
    {[type |-> "ping", arg |-> 7], [type |-> "bogus", arg |-> 0],
     [type |-> "subscribe", arg |-> NoChannel],
     [type |-> "mark_notification_read", arg |-> NoNotificationId]}

Next ==
    \/ \E h \in Handles : StartSession(h, Users, Tokens)
    \/ \E h \in Handles : Authenticated(h)
    \/ \E h \in Handles : CloseUnauthenticated(h)
    \/ \E h \in Handles : Accept(h)
    \/ \E p \in Procs : SendPersonal(p)
    \/ \E p \in Procs : SendToUserStep(p)
    \/ \E h \in Handles : Receive(h, SpecMsgs)
    \/ \E h \in Handles : ReceiveMalformed(h, MalformedFrames)
    \/ \E h \in Handles : ReceiveDisconnect(h)
    \/ \E h \in Handles : ClientClose(h)
    \/ \E a \in Callers : CallSendNotification(a, Users, BOOLEAN, {0, 1}, {0},
                                                 MaxCreated, MaxClock)

Spec == Init /\ [][Next]_vars

\* The notification store at its capacity: up to MaxStoreSends persistent
\* notifications are sent.  The first MaxEarly of them go to either user,
\* interleave freely with one connection (of user 0 or of user 1) and fall
\* within one reading of the clock; the others go to user 1 as a burst before
\* the connection opens, one per tick of the clock.
NextStore ==
    \/ StartSession("h1", Users, Users)
    \/ Authenticated("h1")
    \/ CloseUnauthenticated("h1")
    \/ Accept("h1")
    \/ SendPersonal("h1")
    \/ \E p \in {"h1", "a1"} : SendToUserStep(p)
    \/ ReceiveDisconnect("h1")
    \/ ClientClose("h1")
    \/ CallSendNotification("a1", Users, {TRUE}, {0}, {0}, MaxEarly, MaxStoreSends)
    \/ /\ task["h1"].pc = "idle"
       /\ CallSendNotification("a1", {1}, {TRUE}, {1}, {0}, MaxStoreSends, MaxStoreSends)

InitStore == InitObserving(FrameKinds)

SpecStore == InitStore /\ [][NextStore]_vars

\* Reading the store: user 1, which never connects, is sent up to
\* MaxStoreSends persistent notifications, the first MaxEarly of them possibly
\* within one reading of the clock, the others one per tick; a connection of
\* user 0 comes and goes, and get_notifications is called for user 1 at any
\* time, with limit 1 or the default limit.
NextGet ==
    \/ StartSession("h1", {0}, {0})
    \/ Authenticated("h1")
    \/ Accept("h1")
    \/ SendPersonal("h1")
    \/ \E p \in {"h1", "a1"} : SendToUserStep(p)
    \/ ReceiveDisconnect("h1")
    \/ ClientClose("h1")
    \/ CallSendNotification("a1", {1}, {TRUE}, {0}, {0}, MaxEarly, MaxStoreSends)
    \/ CallSendNotification("a1", {1}, {TRUE}, {1}, {0}, MaxStoreSends, MaxStoreSends)
    \/ CallGetNotifications("a1", {1}, {1, DefaultLimit})
    \/ ReturnResult("a1")

SpecGet == InitStore /\ [][NextGet]_vars

\* Inbound traffic: one connection, of user 0 or user 1, reads up to
\* MaxDispatch frames of any kind a client sends (the unknown tag included)
\* while notifications are sent to either user; every kind of frame the
\* program sends is observed.
NextInbound ==
    \/ StartSession("h1", Users, Users)
    \/ Authenticated("h1")
    \/ CloseUnauthenticated("h1")
    \/ Accept("h1")
    \/ \E p \in {"h1", "a1"} : SendPersonal(p)
    \/ \E p \in {"h1", "a1"} : SendToUserStep(p)
    \/ ReceiveUpTo("h1", InboundMsgs, MaxDispatch)
    \/ ReceiveDisconnect("h1")
    \/ ClientClose("h1")
    \/ CallSendNotification("a1", Users, {TRUE}, {0, 1}, {0}, MaxCreated, MaxClock)

SpecInbound == InitStore /\ [][NextInbound]_vars

InitBroadcast == InitObserving({"broadcast"})

\* Failing transports: two connections, of user 0 or user 1, that the client
\* may drop at any time, while the application sends one notification
\* (persistent or not) and broadcasts on the channel every session
\* subscribes to.
NextFailure ==
    \/ \E h \in Handles, u \in Users : StartSession(h, {u}, {u})
    \/ \E h \in Handles : Authenticated(h)
    \/ \E h \in Handles : Accept(h)
    \/ \E p \in Procs : SendPersonal(p)
    \/ \E p \in Procs : SendToUserStep(p)
    \/ \E h \in Handles : ReceiveDisconnect(h)
    \/ \E h \in Handles : ClientClose(h)
    \/ \E a \in Callers : CallSendNotification(a, Users, BOOLEAN, {0}, {0},
                                                 MaxCreated, MaxClock)
    \/ \E a \in Callers : CallBroadcast(a, {GlobalChannel})

SpecFailure == InitBroadcast /\ [][NextFailure]_vars

\* Reading and marking: one connection, of user 0 or user 1, that may mark a
\* notification read; up to MaxEarly persistent notifications are sent to
\* either user, and the application calls mark_all_as_read and
\* get_notifications for either user at any time.
NextRead ==
    \/ \E u \in Users : StartSession("h1", {u}, {u})
    \/ Authenticated("h1")
    \/ Accept("h1")
    \/ \E p \in {"h1", "a1"} : SendPersonal(p)
    \/ \E p \in {"h1", "a1"} : SendToUserStep(p)
    \/ Receive("h1", {[type |-> "mark_notification_read",
                        arg |-> NotificationId(0, u)] : u \in Users})
    \/ ReceiveDisconnect("h1")
    \/ ClientClose("h1")
    \/ CallSendNotification("a1", Users, {TRUE}, {0, 1}, {0}, MaxEarly, MaxClock)
    \/ CallMarkAllAsRead("a1", Users)
    \/ CallGetNotifications("a1", Users, {1, DefaultLimit})
    \/ ReturnResult("a1")

InitRead == InitObserving({"unread_count_updated"})

\* mark_all_as_read beside a sender: one connection of user 0 or user 1 that
\* the client may drop; one application task calls mark_all_as_read while
\* another sends up to MaxEarly persistent notifications, the two
\* interleaving at their awaits.
NextMarkAll ==
    \/ \E u \in Users : StartSession("h1", {u}, {u})
    \/ Authenticated("h1")
    \/ Accept("h1")
    \/ SendPersonal("h1")
    \/ \E p \in {"h1"} \cup Callers \cup Concurrent : SendToUserStep(p)
    \/ ReceiveDisconnect("h1")
    \/ ClientClose("h1")
    \/ \E a \in Concurrent :
           CallSendNotification(a, Users, {TRUE}, {0, 1}, {0}, MaxEarly, MaxClock)
    \/ \E a \in Callers : CallMarkAllAsRead(a, Users)

SpecMarkAll == InitRead /\ [][NextMarkAll]_vars

SpecRead == InitRead /\ [][NextRead]_vars

\* Follows: two connections, of user 0 or user 1, that the client may drop,
\* while the application sends follow notifications on behalf of either user
\* to the other.
NextFollow ==
    \/ \E h \in Handles, u \in Users : StartSession(h, {u}, {u})
    \/ \E h \in Handles : Authenticated(h)
    \/ \E h \in Handles : Accept(h)
    \/ \E p \in Procs : SendPersonal(p)
    \/ \E p \in Procs : SendToUserStep(p)
    \/ \E h \in Handles : ReceiveDisconnect(h)
    \/ \E h \in Handles : ClientClose(h)
    \/ \E a \in Callers, u \in Users :
          CallSendFollowNotification(a, Users \ {u}, {u}, {"bboy"}, {0, 1},
                                     MaxCreated, MaxClock)

SpecFollow == Init /\ [][NextFollow]_vars

\* Eviction with read-sets: user 1 is sent up to MaxStoreSends persistent
\* notifications, the first MaxEarly within one reading of the clock and
\* interleaved with one connection of the user, which may mark the first
\* identifier read, the others as a burst before the connection opens;
\* mark_all_as_read is called while at most MaxEarly notifications exist and
\* get_notifications at any time.
NextEvict ==
    \/ StartSession("h1", {1}, {1})
    \/ Authenticated("h1")
    \/ Accept("h1")
    \/ SendPersonal("h1")
    \/ \E p \in {"h1", "a1"} : SendToUserStep(p)
    \/ Receive("h1", {[type |-> "mark_notification_read", arg |-> NotificationId(0, 1)]})
    \/ ReceiveDisconnect("h1")
    \/ ClientClose("h1")
    \/ CallSendNotification("a1", {1}, {TRUE}, {0}, {0}, MaxEarly, MaxStoreSends)
    \/ /\ task["h1"].pc = "idle"
       /\ CallSendNotification("a1", {1}, {TRUE}, {1}, {0}, MaxStoreSends, MaxStoreSends)
    \/ /\ created <= MaxEarly
       /\ CallMarkAllAsRead("a1", {1})
    \/ CallGetNotifications("a1", {1}, {DefaultLimit})
    \/ ReturnResult("a1")

SpecEvict == InitRead /\ [][NextEvict]_vars

\* Requests and replies: a connection h1, of user 0 or user 1, sends up to
\* MaxDispatch pings and get_unread_count requests, the client numbering its
\* frames in the ping's timestamp, beside a connection h2 of user 1 that sends
\* nothing, while user 0 posts a notification for either user.
NextReply ==
    \/ \E u \in Users : StartSession("h1", {u}, {u})
    \/ Authenticated("h1")
    \/ StartSession("h2", {1}, {1})
    \/ Authenticated("h2")
    \/ \E h \in Handles : Accept(h)
    \/ \E p \in Procs : SendPersonal(p)
    \/ \E p \in Procs : SendToUserStep(p)
    \/ ReceiveUpTo("h1", {[type |-> "ping", arg |-> task["h1"].inbound + 1],
                          [type |-> "get_unread_count", arg |-> 0]}, MaxDispatch)
    \/ \E h \in Handles : ReceiveDisconnect(h)
    \/ \E h \in Handles : ClientClose(h)
    \/ \E a \in Callers : CallSendNotificationToUser(a, Users, {0}, RouteNotifications,
                                                       {0}, {0}, MaxCreated, MaxClock)

InitReply == InitObserving({"pong", "unread_count"})

SpecReply == InitReply /\ [][NextReply]_vars

\* No originator is between two turns of its loop.
NoneOriginating == \A a \in Callers : task[a].pc # "originate"

\* Fan-out: a connection of user 0 or user 1 and a connection of user 1, that
\* the client may drop, while the application calls one originator with a list of up to MaxList
\* recipients.  The loop of the originator has no await between the return of
\* one send_notification and the call of the next: nothing else runs there.
NextFanout ==
    \/ /\ NoneOriginating
       /\ \/ \E u \in Users : StartSession("h1", {u}, {u})
          \/ StartSession("h2", {1}, {1})
          \/ \E h \in Handles : Authenticated(h)
          \/ \E h \in Handles : Accept(h)
          \/ \E p \in Procs : SendPersonal(p)
          \/ \E p \in Procs : SendToUserStep(p)
          \/ \E h \in Handles : ReceiveDisconnect(h)
          \/ \E h \in Handles : ClientClose(h)
          \/ \E a \in Callers : CallOriginator(a, {"event", "spot", "shop"},
                                               ListsUpTo(MaxList), OriginatorData)
    \/ \E a \in Callers : OriginateNext(a)

SpecFanout == Init /\ [][NextFanout]_vars

\* Private frames: a connection h1 of user 0 or user 1 and a connection h2 of
\* user 1, which may ask for its unread count or mark a notification read,
\* while user 0 posts a notification for either user; the frames
\* that carry a user's notifications and counts are observed.
NextPrivate ==
    \/ \E u \in Users : StartSession("h1", {u}, {u})
    \/ Authenticated("h1")
    \/ StartSession("h2", {1}, {1})
    \/ Authenticated("h2")
    \/ \E h \in Handles : Accept(h)
    \/ \E p \in Procs : SendPersonal(p)
    \/ \E p \in Procs : SendToUserStep(p)
    \/ Receive("h2", {[type |-> "get_unread_count", arg |-> 0],
                      [type |-> "mark_notification_read", arg |-> NotificationId(0, 1)]})
    \/ \E h \in Handles : ReceiveDisconnect(h)
    \/ \E h \in Handles : ClientClose(h)
    \/ \E a \in Callers : CallSendNotificationToUser(a, Users, {0}, RouteNotifications,
                                                       {0}, {0}, MaxCreated, MaxClock)

PrivateKinds == {"notification", "unread_count", "unread_count_updated",
                 "recent_notifications"}

InitPrivate == InitObserving(PrivateKinds)

SpecPrivate == InitPrivate /\ [][NextPrivate]_vars

\* Concurrent sends: user 1 is connected on up to two handles, which the
\* client may drop, while two application tasks send up to MaxEarly
\* persistent notifications to the user, their calls interleaving at the
\* awaits.
NextOrder ==
    \/ \E h \in Handles : StartSession(h, {1}, {1})
    \/ \E h \in Handles : Authenticated(h)
    \/ \E h \in Handles : Accept(h)
    \/ \E p \in Procs : SendPersonal(p)
    \/ \E p \in Procs : SendToUserStep(p)
    \/ \E h \in Handles : ReceiveDisconnect(h)
    \/ \E h \in Handles : ClientClose(h)
    \/ \E a \in Callers \cup Concurrent :
           CallSendNotification(a, {1}, {TRUE}, {0}, {0}, MaxEarly, MaxClock)

SpecOrder == Init /\ [][NextOrder]_vars

\* Broadcasts: two connections, of user 0 or user 1, each of which may send
\* one subscribe or unsubscribe for "shop_42", while the application
\* broadcasts to that channel.
NextBroadcast ==
    \/ \E h \in Handles : StartSession(h, Users, Users)
    \/ \E h \in Handles : Authenticated(h)
    \/ \E h \in Handles : CloseUnauthenticated(h)
    \/ \E h \in Handles : Accept(h)
    \/ \E p \in Procs : SendPersonal(p)
    \/ \E p \in Procs : SendToUserStep(p)
    \/ \E h \in Handles :
           Receive(h, {[type |-> ty, arg |-> "shop_42"] : ty \in {"subscribe", "unsubscribe"}})
    \/ \E h \in Handles : ReceiveDisconnect(h)
    \/ \E h \in Handles : ClientClose(h)
    \/ \E a \in Callers : CallBroadcast(a, {"shop_42"})

SpecBroadcast == InitBroadcast /\ [][NextBroadcast]_vars

\* ------------------------------------------------------------------ claims

HandlesOf(u) == DictGet(active_connections, u, <<>>)
InSomeList(h) == \E u \in DOMAIN active_connections : ListHas(active_connections[u], h)
\* The frames on handle h that carry the notification object with this serial.
Pushes(h, serial) ==
    {k \in 1..Len(outbox[h]) : /\ outbox[h][k].fields = "notification"
                               /\ outbox[h][k].body.serial = serial}

\* No list.remove of an absent handle (ValueError) in any run.
NoErrors == hist.errors = {}

\* C1: in every reachable state a user identity is a key of active_connections
\* if and only if its handle collection holds at least one handle; so a
\* disconnect that removes a user's last handle removes the key in the same step.
C1_KeyIffHandle ==
    /\ DOMAIN active_connections \subseteq Users
    /\ \A u \in Users : (u \in DOMAIN active_connections) <=> (Len(HandlesOf(u)) > 0)

\* A disconnect has removed the last handle of user 1, and the key is gone.
C1_Witness ==
    /\ \E h \in hist.registered \cap hist.disconnected : task[h].user_id = 1
    /\ 1 \notin DOMAIN active_connections

\* C2: a handle is a key of user_sessions if and only if it is in the handle
\* collection of some user of active_connections, and user_sessions gives that user.
C2_ReverseMapIffRegistered ==
    \A h \in Handles :
        /\ (h \in DOMAIN user_sessions) <=> InSomeList(h)
        /\ h \in DOMAIN user_sessions => ListHas(HandlesOf(user_sessions[h]), h)

\* C3: is_user_connected(u) is true exactly when some handle connected under u
\* has not yet been disconnected.
C3_ConnectedIffLiveHandle ==
    \A u \in Users :
        is_user_connected(World, u)
            <=> (\E h \in hist.registered \ hist.disconnected : task[h].user_id = u)

\* C4: once a send_notification to a connected user has returned, the
\* notification is stored if persistent, and every handle that was registered
\* for the user from the start of the call on (and whose connection is open)
\* has received exactly one frame carrying the notification.
C4_OnlineSendReachesEveryHandle ==
    \A i \in 1..Len(hist.calls) :
        LET c == hist.calls[i] IN
        (c.connected /\ c.done) =>
            /\ c.persistent =>
                 \E j \in 1..Len(DictGet(notifications, c.user_id, <<>>)) :
                     notifications[c.user_id][j].serial = c.serial
            /\ \A h \in Handles :
                 (/\ ListHas(c.handles, h)
                  /\ h \notin hist.disconnected
                  /\ transport[h] = "open")
                     => Cardinality(Pushes(h, c.serial)) = 1

\* The calls of send_notification made so far for user u with persistent=true,
\* in the order they were made.
PersistentCalls(u) == SelectSeq(hist.calls, LAMBDA c : c.user_id = u /\ c.persistent)
Stored(u) == DictGet(notifications, u, <<>>)
Min(a, b) == IF a <= b THEN a ELSE b

\* The stored entries that come before entry j of st in most-recent-first
\* order: a later timestamp, or the same timestamp and stored earlier.
Before(st, j) ==
    {k \in 1..Len(st) : \/ st[k].timestamp > st[j].timestamp
                        \/ (st[k].timestamp = st[j].timestamp /\ k < j)}
HasSerial(l, serial) == \E k \in 1..Len(l) : l[k].serial = serial

\* A send_notification for a user with no registered handle puts no frame
\* carrying the notification on any handle.
OfflineSendPushesNothing ==
    \A i \in 1..Len(hist.calls) :
        ~hist.calls[i].connected =>
            \A h \in Handles : Pushes(h, hist.calls[i].serial) = {}

\* C5 as stated: a send_notification for a user with no live handle sends no
\* message on any handle, and a persistent one is returned by a later
\* get_notifications for that user (here: one with the default limit) as long
\* as fewer than 100 further notifications have been stored for the user.
C5_OfflineSendRetrievable ==
    /\ OfflineSendPushesNothing
    /\ \A a \in Callers :
         (task[a].pc = "got" /\ task[a].idx = DefaultLimit) =>
             LET sent == PersistentCalls(task[a].to) IN
             \A i \in 1..Len(sent) :
                 (~sent[i].connected /\ Len(sent) - i < MaxStored)
                     => HasSerial(task[a].recent, sent[i].serial)

\* C5, amended: a send_notification for a user with no registered handle
\* sends no message on any handle; a persistent one stays stored until 100
\* further notifications have been stored for the user, and while it is stored
\* get_notifications(user, limit) returns it whenever fewer than limit of the
\* user's other stored notifications come before it in most-recent-first order.
C5_OfflineSendWithinLimit ==
    /\ OfflineSendPushesNothing
    /\ \A u \in Users :
         LET sent == PersistentCalls(u) IN
         \A i \in 1..Len(sent) :
             (~sent[i].connected /\ Len(sent) - i < MaxStored)
                 => Stored(u)[Len(Stored(u)) - (Len(sent) - i)].serial = sent[i].serial
    /\ \A a \in Callers :
         task[a].pc = "got" =>
             LET st == Stored(task[a].to) IN
             \A j \in 1..Len(st) :
                 \/ HasSerial(task[a].recent, st[j].serial)
                 \/ hist.calls[st[j].serial].connected
                 \/ Cardinality(Before(st, j)) >= task[a].idx

\* get_notifications with the default limit has returned 50 of the 100 stored
\* notifications of a user that was offline when they were sent, while
\* another user's connection has received frames.
C5_Witness ==
    /\ task["a1"].pc = "got" /\ task["a1"].idx = DefaultLimit
    /\ Len(Stored(task["a1"].to)) = MaxStored
    /\ Len(task["a1"].recent) = DefaultLimit
    /\ \A k \in 1..Len(task["a1"].recent) :
          ~hist.calls[task["a1"].recent[k].serial].connected
    /\ \E h \in Handles : outbox[h] # <<>>

\* C6: in every reachable state each user's stored sequence has at most 100
\* entries and is the last 100 (or all, when fewer) of the persistent
\* notifications sent to the user, in the order sent: a persistent send that
\* would make it 101 long removes exactly the oldest entry and puts the new
\* one last.
C6_StoreCapFifo ==
    \A u \in Users :
        LET sent == PersistentCalls(u)
            st == Stored(u)
        IN /\ Len(st) <= MaxStored
           /\ Len(st) = Min(Len(sent), MaxStored)
           /\ \A j \in 1..Len(st) : st[j].serial = sent[Len(sent) - Len(st) + j].serial

\* The store of user 1 is full and its oldest entry has been evicted.
C6_Witness ==
    /\ Len(Stored(1)) = MaxStored
    /\ Len(PersistentCalls(1)) > MaxStored
    /\ Stored(1)[1].serial # PersistentCalls(1)[1].serial

\* Handle h is the first connection of its user, every notification sent to
\* the user so far was persistent and sent while the user had no registered
\* handle, at least one was sent, none is marked read, and the session on h
\* has gone through its start-up on an open connection and waits for its
\* first inbound frame.
FlushedOffline(h) ==
    /\ task[h].pc = "receive" /\ task[h].inbound = 0
    /\ transport[h] = "open"
    /\ LET u == task[h].user_id IN
       /\ HandlesOf(u) = <<h>>
       /\ \A g \in hist.registered \ {h} : task[g].user_id # u
       /\ PersistentCalls(u) # <<>>
       /\ \A i \in 1..Len(hist.calls) :
             hist.calls[i].user_id = u =>
                 hist.calls[i].persistent /\ ~hist.calls[i].connected
       /\ DictGet(read_notifications, u, {}) = {}

\* The frames that precede the flush on a new connection of user u: the
\* acknowledgement and the confirmations of the two default subscriptions.
StartupFrames(u) == <<AckMsg, SubMsg(UserChannel(u)), SubMsg(GlobalChannel)>>

\* C7: after n >= 1 persistent notifications sent to an offline user, none
\* marked read, the user's next connection receives, after the
\* acknowledgement and the subscription confirmations, exactly one
\* unread_count frame with count n and then exactly one recent_notifications
\* frame with the min(n, 10) most recent notifications, most recent first (by
\* timestamp, in any order among equal timestamps).
C7_PendingFlushOnConnect ==
    \A h \in Handles :
        FlushedOffline(h) =>
            LET u == task[h].user_id
                sent == PersistentCalls(u)
                st == Stored(u)
                n == Len(sent)
                m == Min(n, PendingLimit)
                ob == outbox[h]
            IN /\ Len(ob) = 5
               /\ SubSeq(ob, 1, 3) = StartupFrames(u)
               /\ ob[4] = CountMsg(n)
               /\ ob[5].type = "recent_notifications"
               /\ Len(ob[5].body) = m
               /\ \A k \in 1..(m - 1) :
                     ob[5].body[k].timestamp >= ob[5].body[k + 1].timestamp
               /\ Cardinality({ob[5].body[k].serial : k \in 1..m}) = m
               /\ \A k \in 1..m : HasSerial(sent, ob[5].body[k].serial)
               /\ \A j \in 1..Len(st) :
                     \/ HasSerial(ob[5].body, st[j].serial)
                     \/ st[j].timestamp <= ob[5].body[m].timestamp

\* The frames on handle h that carry the message of broadcast c.
Received(h, c) ==
    {k \in 1..Len(outbox[h]) : outbox[h][k] = BroadcastMsg(c.channel, c.data)}
\* The handles registered when broadcast c began.
RegisteredAt(c) ==
    {h \in Handles : \E u \in DOMAIN c.handles : ListHas(c.handles[u], h)}

\* C8: broadcast_to_channel(msg, c) delivers msg to every connection that has
\* subscribed to channel c, and a connection that has not subscribed to c
\* does not receive msg, also when another connection of the same user has
\* subscribed.  Stated of a broadcast that is over: a connection registered
\* when it began and ever since, open, whose subscribe was carried out before
\* it began, no subscription having changed since, has the message; a
\* connection that had not subscribed has not.
C8_BroadcastPerConnection ==
    \A i \in 1..Len(hist.bcalls) :
        LET c == hist.bcalls[i] IN
        (c.done \/ c.raised) =>
            \A h \in Handles :
                /\ (/\ <<h, c.channel>> \in c.subscribed
                    /\ c.subops = hist.subops
                    /\ h \in RegisteredAt(c)
                    /\ h \notin hist.disconnected
                    /\ transport[h] = "open") => Received(h, c) # {}
                /\ <<h, c.channel>> \notin c.subscribed => Received(h, c) = {}

\* C11: a connection attempt without a token never has the authentication
\* collaborator called, is never registered in the connection map or the
\* reverse map, never subscribed to a channel and never accepted, and when its
\* endpoint has returned it has been closed with code 4001.
C11_NoTokenClosed4001 ==
    \A h \in Handles :
        (task[h].pc # "idle" /\ task[h].token = NoToken) =>
            /\ ~task[h].authenticated
            /\ task[h].pc \in {"close_4001", "done"}
            /\ task[h].pc = "done" => task[h].close_code = 4001
            /\ h \notin hist.registered
            /\ h \notin DOMAIN user_sessions
            /\ ~InSomeList(h)
            /\ \A c \in Channels : <<h, c>> \notin hist.subscribed
            /\ transport[h] # "open"
            /\ outbox[h] = <<>>

\* An attempt without a token has been closed with 4001 while another
\* connection is registered.
C11_Witness ==
    \E h \in Handles :
        /\ task[h].token = NoToken /\ task[h].pc = "done" /\ task[h].close_code = 4001
        /\ \E g \in Handles \ {h} : g \in DOMAIN user_sessions

\* The registry and the store.
Registry == <<active_connections, user_sessions, subscriptions, sub_keys>>
Store == <<notifications, read_notifications>>

\* C12: a handle is registered under user u only if its token authenticated
\* as u; an attempt whose token fails validation or authenticates as another
\* user is never registered, ends closed with code 4003, and its steps leave
\* the registry and the store unchanged.
C12_Rejected4003 ==
    /\ [](\A h \in Handles :
            /\ h \in hist.registered =>
                  get_current_user_ws(task[h].token) = task[h].user_id
            /\ \A u \in DOMAIN active_connections :
                  ListHas(active_connections[u], h) =>
                      get_current_user_ws(task[h].token) = u
            /\ h \in DOMAIN user_sessions =>
                  get_current_user_ws(task[h].token) = user_sessions[h]
            /\ (/\ task[h].pc # "idle"
                /\ task[h].token # NoToken
                /\ get_current_user_ws(task[h].token) # task[h].user_id) =>
                   /\ task[h].pc \in {"auth", "close_4003", "done"}
                   /\ task[h].pc = "done" => task[h].close_code = 4003
                   /\ h \notin hist.registered
                   /\ transport[h] # "open")
    /\ [][\A h \in Handles :
            (/\ task'[h] # task[h]
             /\ task[h].pc = "close_4003" \/ task'[h].pc = "close_4003")
                => UNCHANGED <<Registry, Store>>]_vars

\* An attempt with a valid token of another user has been closed with 4003
\* while a connection of the claimed user is registered.
C12_Witness ==
    \E h \in Handles :
        /\ task[h].pc = "done" /\ task[h].close_code = 4003
        /\ task[h].token \in Users /\ task[h].token # task[h].user_id
        /\ \E g \in Handles \ {h} :
              g \in DOMAIN user_sessions /\ user_sessions[g] = task[h].user_id

\* C9: a session that was Active and has ended has its handle in neither the
\* connection map nor the reverse map, and no clean-up call has failed.
C9_EndedSessionIsUnregistered ==
    \A h \in Handles :
        (task[h].pc = "done" /\ h \in hist.registered) =>
            /\ h \notin DOMAIN user_sessions
            /\ ~InSomeList(h)
            /\ NoErrors

\* C10: in every reachable state and for every handle, disconnect(handle)
\* twice gives the connection map, reverse map and subscriptions that
\* disconnect(handle) once gives, and neither call fails; for a handle that is
\* not registered the first call already changes nothing.
C10_DisconnectIdempotent ==
    \A h \in Handles :
        LET w0 == World
            w1 == Disconnect(w0, h)
            w2 == Disconnect(w1, h)
        IN /\ w2.ac = w1.ac /\ w2.us = w1.us /\ w2.subs = w1.subs
           /\ w2.hist.errors = w0.hist.errors
           /\ h \notin DOMAIN user_sessions =>
                (w1.ac = w0.ac /\ w1.us = w0.us /\ w1.subs = w0.subs)

\* A registered handle whose user holds a second handle, and a handle that
\* has already been disconnected.
C10_Witness ==
    /\ \E h \in DOMAIN user_sessions :
         ListHas(HandlesOf(user_sessions[h]), h) /\ Len(HandlesOf(user_sessions[h])) = 2
    /\ hist.disconnected # {}

\* C13: on successful authentication the session registers the handle (with
\* connection_established), subscribes to user_{id}, then to
\* global_notifications, then flushes; when it starts receiving inbound
\* messages the user's subscription set contains both default channels.  The
\* order is fixed by the chain of continuations (Accept, "subscribe_user",
\* "subscribe_global", "pending", "receive"); this formula states the outcome
\* for a session whose handle is still registered when it enters the loop.
C13_DefaultSubscriptionsAtReceive ==
    [][\A h \in Handles :
         (/\ task[h].pc # "receive"
          /\ task'[h].pc = "receive"
          /\ task'[h].inbound = 0
          /\ h \in hist'.registered
          /\ h \in DOMAIN user_sessions')
         => LET u == task'[h].user_id IN
            /\ u \in DOMAIN subscriptions'
            /\ {UserChannel(u), GlobalChannel} \subseteq subscriptions'[u]]_vars

\* C14: an inbound payload that cannot be parsed is logged and the session
\* continues: every payload received in the loop leaves the session running
\* and its handle registered.
C14_MalformedKeepsSession ==
    [][\A h \in Handles :
         (task[h].pc = "receive" /\ task'[h].inbound = task[h].inbound + 1)
         => /\ task'[h].pc # "done"
            /\ (h \in DOMAIN user_sessions => h \in DOMAIN user_sessions')]_vars

\* C15: an inbound message whose type tag is none of ping, subscribe,
\* unsubscribe, mark_notification_read, get_unread_count sends nothing, leaves
\* the registry and the store unchanged and leaves the session in its receive
\* loop; the message after it is dispatched as usual (a ping is answered by
\* the pong, get_unread_count by the count).
C15_UnknownTagIgnored ==
    [][\A h \in Handles :
         /\ (task[h].pc = "receive"
             /\ task'[h].received = Append(task[h].received, "bogus"))
            => /\ UNCHANGED <<Registry, Store, list_epoch, outbox, transport>>
               /\ task'[h].pc = "receive"
               /\ task'[h].user_id = task[h].user_id
               /\ \A p \in Procs \ {h} : task'[p] = task[p]
         /\ (task[h].pc = "receive"
             /\ task'[h].received = Append(task[h].received, "ping"))
            => /\ task'[h].pc = "send_personal"
               /\ task'[h].msg = PongMsg(7)
               /\ task'[h].ws = h
         /\ (task[h].pc = "receive"
             /\ task'[h].received = Append(task[h].received, "get_unread_count"))
            => /\ task'[h].pc = "send_personal"
               /\ task'[h].msg = CountMsg(get_unread_count(notifications,
                                     read_notifications, task[h].user_id))
               /\ task'[h].ws = h]_vars

\* The unknown tag was read and ignored, and the ping after it is answered.
C15_Witness ==
    /\ task["h1"].received = <<"bogus", "ping">>
    /\ task["h1"].pc = "receive"
    /\ Len(outbox["h1"]) > 0
    /\ outbox["h1"][Len(outbox["h1"])] = PongMsg(7)

\* The handle is in some user's collection of the connection map ac.
Listed(ac, h) == \E u \in DOMAIN ac : ListHas(ac[u], h)

\* The registration of handle h is the same before and after the step.
SameRegistration(h) ==
    /\ (h \in DOMAIN user_sessions) = (h \in DOMAIN user_sessions')
    /\ Listed(active_connections, h) = Listed(active_connections', h)

\* Handle h is in neither map after the step.
Unregistered(h) ==
    /\ h \notin DOMAIN user_sessions'
    /\ ~Listed(active_connections', h)

\* The step ends the "for websocket in ..." loop of the send_to_user of p.
LoopEnds(p) ==
    /\ task[p].pc = "send_to_user"
    /\ task'[p] # task[p]
    /\ (task'[p].pc # "send_to_user" \/ task'[p].tried = {})

\* C16: when a send on one handle fails, exactly that handle is removed from
\* the registry.  send_to_user still attempts the message on every other
\* handle of the user (here: every handle the user had when send_notification
\* began and still has when the loop ends) and removes the handles whose send
\* failed and no other; send_personal_message removes the handle whose send
\* failed and no other.
C16_FailedSendRemovesThatHandle ==
    [][/\ \A p \in Procs :
            LoopEnds(p) =>
              LET t == task[p]
                  tried == t.tried \cup {t.cur}
                  failed == {t.failed[i] : i \in 1..Len(t.failed)}
                            \cup (IF transport[t.cur] # "open" THEN {t.cur} ELSE {})
                  start == IF t.call > 0 /\ p \in Callers
                           THEN hist.calls[t.call].handles ELSE <<>>
              IN /\ \A h \in Handles :
                      (ListHas(start, h) /\ ListHas(HandlesOf(t.to), h))
                      => h \in tried
                 /\ \A h \in failed : Unregistered(h)
                 /\ \A h \in Handles \ failed : SameRegistration(h)
       /\ \A p \in Procs :
            (task[p].pc = "send_personal" /\ task'[p] # task[p]
             /\ transport[task[p].ws] # "open")
            => /\ Unregistered(task[p].ws)
               /\ \A h \in Handles \ {task[p].ws} : SameRegistration(h)]_vars

\* C17: a transport failure while sending never propagates to the caller of
\* send_to_user, broadcast_to_channel or send_notification.  No exception
\* leaves the clean-up of the failed handles; a send_notification that has
\* returned has returned the identifier it generated, and its notification,
\* when persistent, is in the store; after a failed send the task goes on with
\* the next handle or with the code that follows the call, and a broadcast
\* ends early only when the subscriptions dict changed size.
C17_SendFailureNotPropagated ==
    /\ [](/\ NoErrors
          /\ \A i \in 1..Len(hist.calls) :
               LET c == hist.calls[i] IN
               /\ c.done => c.result = c.id
               /\ ~c.done => c.result = <<>>
               /\ c.persistent => HasSerial(Stored(c.user_id), c.serial))
    /\ [][\A p \in Procs :
            (/\ task[p].pc = "send_to_user"
             /\ transport[task[p].cur] # "open"
             /\ task'[p] # task[p])
            => /\ hist'.errors = {}
               /\ task'[p].pc \in {"send_to_user", "send_personal", "receive", "idle"}
               /\ (task[p].cont = "return" /\ task'[p].pc = "idle")
                  => /\ hist'.calls[task[p].call].done
                     /\ hist'.calls[task[p].call].result = hist.calls[task[p].call].id
               /\ (task[p].cont = "broadcast_next" /\ task'[p].pc = "idle")
                  => \/ hist'.bcalls[task[p].call].done
                     \/ Len(sub_keys) # task[p].bsize]_vars

\* A send of a persistent notification has failed on the user's first handle
\* and send_to_user is at the second; then the call has returned its id.
C17_Witness ==
    /\ Len(hist.calls) = 1
    /\ hist.calls[1].persistent
    /\ Len(hist.calls[1].handles) = 2
    /\ hist.calls[1].handles[1] \in hist.disconnected
    /\ transport[hist.calls[1].handles[1]] = "closed"
    /\ hist.calls[1].done
    /\ hist.calls[1].result = hist.calls[1].id
    /\ HasSerial(Stored(hist.calls[1].user_id), 1)

\* C18: under any interleaving at the suspension points every public operation
\* acts as one indivisible step: its state change and the set of handles it
\* delivers to are those of running it alone from the state it started in.
\* For the push of send_notification that means: the handles that got the
\* notification are handles the user had when the call began, and each of
\* these that is still open got it once.
C18_OperationsIndivisible ==
    \A i \in 1..Len(hist.calls) :
        LET c == hist.calls[i] IN
        c.done =>
          \A h \in Handles :
            /\ Pushes(h, c.serial) # {} => ListHas(c.handles, h)
            /\ (ListHas(c.handles, h) /\ transport[h] = "open")
               => Cardinality(Pushes(h, c.serial)) = 1

\* The identifiers of the notifications stored for user u.
StoredIds(u) == {Stored(u)[i].id : i \in 1..Len(Stored(u))}

\* C19: get_unread_count(user) evaluated immediately after
\* mark_all_as_read(user) returns 0 whatever the count was before;
\* mark_all_as_read adds every stored notification identifier of the user to
\* the read-set (and nothing else, the store staying as it is) and, if the
\* user is connected, pushes unread_count_updated with count 0.  The count is
\* 0 as soon as the identifiers are added, and at the return of the call.
C19_MarkAllThenCountZero ==
    /\ [](\A i \in 1..Len(hist.marks) :
            LET m == hist.marks[i] IN
            /\ m.ids \subseteq DictGet(read_notifications, m.user_id, {})
            /\ m.done => m.unread = 0
            /\ (~m.connected) => m.done)
    /\ [][Len(hist'.marks) = Len(hist.marks) + 1
          => LET m == hist'.marks[Len(hist'.marks)]
                 u == m.user_id
             IN /\ m.ids = StoredIds(u)
                /\ m.before = get_unread_count(notifications, read_notifications, u)
                /\ notifications' = notifications
                /\ read_notifications' =
                       DictSet(read_notifications, u,
                               DictGet(read_notifications, u, {}) \cup StoredIds(u))
                /\ get_unread_count(notifications', read_notifications', u) = 0
                /\ (m.connected = is_user_connected(World, u))
                /\ m.connected
                   => /\ task'["a1"].pc = "send_to_user"
                      /\ task'["a1"].to = u
                      /\ task'["a1"].msg = CountUpdatedMsg(0)
                /\ (~m.connected)
                   => /\ task'["a1"].pc = "idle"
                      /\ outbox' = outbox]_vars

\* C20: get_notifications(user, limit) leaves the store unchanged (the stored
\* sequences with every field of every notification, and the read-sets) and
\* returns the user's stored notifications, each with read = (its identifier
\* is in the user's read-set), most recent first, at most limit entries.
C20_GetNotificationsReadOnly ==
    [][\A a \in Callers :
         (task[a].pc = "idle" /\ task'[a].pc = "got")
         => LET u == task'[a].to
                limit == task'[a].idx
                res == task'[a].recent
                r == DictGet(read_notifications, u, {})
            IN /\ notifications' = notifications
               /\ read_notifications' = read_notifications
               /\ Len(res) = Min(limit, Len(Stored(u)))
               /\ \A k \in 1..Len(res) :
                    /\ res[k].read = (res[k].id \in r)
                    /\ HasSerial(Stored(u), res[k].serial)
               /\ \A k \in 1..(Len(res) - 1) :
                    res[k].timestamp >= res[k + 1].timestamp]_vars

\* The identifiers of the notifications ever stored for user u.
EverStoredIds(u) ==
    {hist.calls[i].id : i \in {j \in 1..Len(hist.calls) :
                                  hist.calls[j].user_id = u /\ hist.calls[j].persistent}}

\* C21: in every reachable state every identifier in a user's read-set is the
\* identifier of a notification that is, or once was, in that user's stored
\* sequence.
C21_ReadSetWithinStored ==
    \A u \in DOMAIN read_notifications : read_notifications[u] \subseteq EverStoredIds(u)

\* C22: every call of send_notification generates an identifier different
\* from that of every other call, and no stored sequence holds two entries
\* with the same identifier.
C22_IdentifiersUnique ==
    /\ \A i, j \in 1..Len(hist.calls) :
         i # j => hist.calls[i].id # hist.calls[j].id
    /\ \A u \in DOMAIN notifications :
         \A i, j \in 1..Len(notifications[u]) :
           i # j => notifications[u][i].id # notifications[u][j].id

\* C23: with user A connected on one handle H1, send_follow_notification(B, A,
\* "bboy") makes H1 receive one message of type notification that carries
\* type user_follow, title "New Follower" and a message text containing
\* "bboy", and stores that notification in A's sequence.
C23_FollowPushed ==
    \A i \in 1..Len(hist.calls) :
        LET c == hist.calls[i] IN
        (c.done /\ Len(c.handles) = 1 /\ transport[c.handles[1]] = "open"
                /\ Len(HandlesOf(c.user_id)) = 1)
        => LET h == c.handles[1] IN
           /\ Cardinality(Pushes(h, c.serial)) = 1
           /\ \A k \in Pushes(h, c.serial) :
                /\ outbox[h][k].type = "notification"
                /\ outbox[h][k].body.type = "user_follow"
                /\ outbox[h][k].body.title = "New Follower"
                /\ \E j \in 1..Len(outbox[h][k].body.message) :
                       outbox[h][k].body.message[j] = "bboy"
                /\ outbox[h][k].body.sender_id # c.user_id
           /\ HasSerial(Stored(c.user_id), c.serial)

\* The session of handle h reads an inbound frame with this type tag.
Reads(h, tag) ==
    /\ task[h].pc = "receive"
    /\ task'[h].received = Append(task[h].received, tag)

\* C24: for a registered handle, subscribe(handle, c) makes c a member of the
\* owning user's subscription set and sends subscription_confirmed on the
\* handle; unsubscribe(handle, c) makes c absent from the set and sends
\* unsubscription_confirmed on the handle, whether or not c was subscribed
\* before; for a handle that is not registered both change nothing and send
\* nothing.  Stated for the channel the clients name, "shop_42".
C24_SubscribeUnsubscribe ==
    [][\A h \in Handles :
         LET u == DictGet(user_sessions, h, None) IN
         /\ (Reads(h, "subscribe") /\ h \in DOMAIN user_sessions)
            => /\ u \in DOMAIN subscriptions'
               /\ "shop_42" \in subscriptions'[u]
               /\ task'[h].pc = "send_personal"
               /\ task'[h].ws = h
               /\ task'[h].msg = SubMsg("shop_42")
         /\ (Reads(h, "unsubscribe") /\ h \in DOMAIN user_sessions)
            => /\ u \in DOMAIN subscriptions'
               /\ "shop_42" \notin subscriptions'[u]
               /\ task'[h].pc = "send_personal"
               /\ task'[h].ws = h
               /\ task'[h].msg = UnsubMsg("shop_42")
         /\ ((Reads(h, "subscribe") \/ Reads(h, "unsubscribe"))
             /\ h \notin DOMAIN user_sessions)
            => /\ subscriptions' = subscriptions
               /\ task'[h].pc = "receive"
               /\ outbox' = outbox]_vars

\* C25: disconnect(handle) leaves the subscriptions map and the notification
\* store unchanged, also when it removes the user's last handle: in every
\* reachable state disconnecting any handle, or all handles one after the
\* other, gives the same subscriptions, stored notifications and read-sets;
\* and the step that ends a session changes none of them.
C25_DisconnectKeepsSubscriptions ==
    /\ [](\A h \in Handles, g \in Handles :
            LET w1 == Disconnect(World, h)
                w2 == Disconnect(w1, g)
            IN /\ w1.subs = subscriptions /\ w1.subk = sub_keys
               /\ w1.notifs = notifications /\ w1.reads = read_notifications
               /\ w2.subs = subscriptions /\ w2.subk = sub_keys
               /\ w2.notifs = notifications /\ w2.reads = read_notifications)
    /\ [][\A h \in Handles :
            (task[h].pc # "done" /\ task'[h].pc = "done")
            => UNCHANGED <<subscriptions, sub_keys, Store>>]_vars

\* The last handle of user 1 has been disconnected and its session has ended;
\* the user's subscription set still holds the channels it subscribed to.
C25_Witness ==
    \E h \in Handles :
        /\ task[h].pc = "done"
        /\ task[h].user_id = 1
        /\ h \in hist.registered
        /\ h \in hist.disconnected
        /\ 1 \notin DOMAIN active_connections
        /\ 1 \in DOMAIN subscriptions
        /\ {UserChannel(1), GlobalChannel, "shop_42"} \subseteq subscriptions[1]

\* The registry and the store of w differ from the current ones at most in
\* the registration of the handles in F.
OnlyUnregisters(w, F) ==
    /\ \A g \in Handles \ F :
         /\ (g \in DOMAIN w.us) = (g \in DOMAIN user_sessions)
         /\ Listed(w.ac, g) = Listed(active_connections, g)
    /\ w.subs = subscriptions
    /\ w.notifs = notifications
    /\ w.reads = read_notifications

\* The read-set of user u: read_notifications.get(u, set()).
ReadSet(u) == DictGet(read_notifications, u, {})

\* C26: any single failure (authentication failure, malformed or unknown
\* inbound message, send failure on a handle, transport disconnect)
\* terminates at most the connection it occurred on: the registrations of
\* all other handles, all subscription sets, all stored notifications and
\* all read-sets are the same after the failure is handled as before.  The
\* handling is the disconnect of the handle (in send_personal_message, after
\* the loop of send_to_user, in the finally clause); an inbound message of
\* unknown type ends no connection at all.  A user's read-set is the set of
\* identifiers read_notifications holds for the user, empty when it holds
\* none: a mark_notification_read frame whose identifier cannot be hashed
\* leaves an empty set under the user's key and the read-set as it was.  When
\* the start-up flush follows a failed send in the same step, the store is
\* as its get_notifications leaves it.
C26_FailureEndsOneConnection ==
    /\ [](\A h \in Handles : OnlyUnregisters(Disconnect(World, h), {h}))
    /\ [][/\ \A h \in Handles :
                 (task[h].pc # "done" /\ task'[h].pc = "done")
                 => /\ \A g \in Handles \ {h} : SameRegistration(g)
                    /\ UNCHANGED <<subscriptions, sub_keys, notifications>>
                    /\ \A u \in Users : ReadSet(u)' = ReadSet(u)
                    /\ \A p \in Procs \ {h} : task'[p] = task[p]
          /\ \A h \in Handles :
                 (/\ task[h].pc = "receive"
                  /\ task'[h].received = Append(task[h].received, "bogus"))
                 => /\ \A g \in Handles : SameRegistration(g)
                    /\ UNCHANGED <<subscriptions, sub_keys, Store>>
                    /\ task'[h].pc # "done"
                    /\ \A p \in Procs \ {h} : task'[p] = task[p]
          /\ \A p \in Procs :
                 (/\ task[p].pc = "send_personal"
                  /\ task'[p] # task[p]
                  /\ transport[task[p].ws] # "open")
                 => /\ \A g \in Handles \ {task[p].ws} : SameRegistration(g)
                    /\ UNCHANGED <<subscriptions, sub_keys, read_notifications>>
                    /\ \/ notifications' = notifications
                       \/ /\ task[p].cont \in {"subscribe_user", "subscribe_global", "pending"}
                          /\ notifications' = GetNotificationsStore(notifications,
                                                  read_notifications, task[p].user_id)
                    /\ task'[p].pc # "done"
          /\ \A p \in Procs :
                 (/\ task[p].pc = "send_to_user"
                  /\ task'[p] # task[p]
                  /\ (task[p].failed # <<>> \/ transport[task[p].cur] # "open"))
                 => LET failed == {task[p].failed[i] : i \in 1..Len(task[p].failed)}
                                  \cup (IF transport[task[p].cur] # "open"
                                        THEN {task[p].cur} ELSE {})
                    IN /\ \A g \in Handles \ failed : SameRegistration(g)
                       /\ UNCHANGED <<subscriptions, sub_keys, Store>>
                       /\ task'[p].pc # "done"]_vars

\* A session has ended on a frame that is not json and its handle has been
\* disconnected; the other handle of the same user has read a message of
\* unknown type and is still registered, and a notification is stored.
C26_Witness ==
    /\ task["h1"].pc = "done"
    /\ task["h1"].received = <<"not_json">>
    /\ "h1" \in hist.disconnected
    /\ task["h2"].received = <<"bogus">>
    /\ task["h2"].pc = "receive"
    /\ "h2" \in DOMAIN user_sessions
    /\ user_sessions["h2"] = task["h1"].user_id
    /\ InSomeList("h2")
    /\ Len(Stored(task["h1"].user_id)) = 1

\* C27: send_notification with persistent=false leaves the notification store
\* and the read-sets unchanged and still delivers the notification as a
\* message of type notification to every live handle of the user if the user
\* is connected; if the user is not connected nothing is delivered and
\* nothing is stored.
C27_TransientSend ==
    /\ [](\A i \in 1..Len(hist.calls) :
            LET c == hist.calls[i] IN
            ~c.persistent =>
              /\ \A u \in DOMAIN notifications : ~HasSerial(notifications[u], c.serial)
              /\ ~c.connected => \A h \in Handles : Pushes(h, c.serial) = {}
              /\ (c.connected /\ c.done) =>
                   \A h \in Handles :
                     /\ (ListHas(c.handles, h) /\ transport[h] = "open"
                         /\ h \in DOMAIN user_sessions)
                        => Pushes(h, c.serial) # {}
                     /\ \A k \in Pushes(h, c.serial) :
                          outbox[h][k].type = "notification")
    /\ [][(Len(hist'.calls) = Len(hist.calls) + 1
           /\ ~hist'.calls[Len(hist'.calls)].persistent)
          => UNCHANGED Store]_vars

\* The identifiers the clients of the marking specification name.
MarkedIds == {NotificationId(0, u) : u \in Users}

\* C28: mark_as_read(id, user) is idempotent on the read-set, and each call,
\* if the user is connected, pushes to the user's handles unread_count_updated
\* with the number of the user's stored notifications whose identifier is not
\* in the read-set after the marking.  The first conjunct applies the
\* operation once and twice in every reachable state; the second is the call
\* a session makes for an inbound mark_notification_read.
C28_MarkAsRead ==
    /\ [](\A u \in Users, id \in MarkedIds :
            LET r1 == MarkAsRead(World, NewTask("a1"), id, u, "return")
                r2 == MarkAsRead(r1.w, NewTask("a1"), id, u, "return")
                count == get_unread_count(notifications, r1.w.reads, u)
            IN /\ r1.w.reads = DictSet(read_notifications, u,
                                       DictGet(read_notifications, u, {}) \cup {id})
               /\ r2.w.reads = r1.w.reads
               /\ r1.w.notifs = notifications
               /\ count = Cardinality({i \in 1..Len(Stored(u)) :
                                          Stored(u)[i].id \notin r1.w.reads[u]})
               /\ is_user_connected(World, u)
                  => /\ r1.t.pc = "send_to_user" /\ r1.t.to = u
                     /\ r1.t.msg = CountUpdatedMsg(count)
                     /\ r2.t.msg = CountUpdatedMsg(count)
               /\ ~is_user_connected(World, u) => r1.t.pc = "idle")
    /\ [][\A h \in Handles :
            Reads(h, "mark_notification_read")
            => LET u == task[h].user_id IN
               /\ notifications' = notifications
               /\ \E id \in MarkedIds :
                    read_notifications' =
                        DictSet(read_notifications, u,
                                DictGet(read_notifications, u, {}) \cup {id})
               /\ is_user_connected(World, u)
                  => /\ task'[h].pc = "send_to_user"
                     /\ task'[h].to = u
                     /\ task'[h].msg =
                          CountUpdatedMsg(get_unread_count(notifications',
                                                           read_notifications', u))
               /\ ~is_user_connected(World, u) => task'[h].pc = "receive"]_vars

\* A user with two stored notifications has marked one of them read and the
\* count 1 is on its connection.
C28_Witness ==
    /\ task["h1"].received = <<"mark_notification_read">>
    /\ task["h1"].pc = "receive"
    /\ LET u == task["h1"].user_id IN
       /\ Len(Stored(u)) = 2
       /\ DictGet(read_notifications, u, {}) = {NotificationId(0, u)}
       /\ Stored(u)[1].id = NotificationId(0, u)
       /\ Stored(u)[2].id # NotificationId(0, u)
       /\ Len(outbox["h1"]) > 0
       /\ outbox["h1"][Len(outbox["h1"])] = CountUpdatedMsg(1)

\* The serials of the notifications stored for user u in the store n.
Serials(n, u) ==
    LET l == DictGet(n, u, <<>>) IN [i \in 1..Len(l) |-> l[i].serial]

\* C29: across every step each user's read-set only grows, and a notification
\* leaves a user's stored sequence only by FIFO eviction in a persistent send
\* to that same user: a step either keeps the user's sequence of stored
\* notifications, or is such a send and appends its notification, dropping
\* the oldest entry when the sequence was full.
C29_ReadSetGrowsStoreEvictsFifo ==
    [][/\ DOMAIN read_notifications \subseteq DOMAIN read_notifications'
       /\ \A u \in DOMAIN read_notifications :
            read_notifications[u] \subseteq read_notifications'[u]
       /\ DOMAIN notifications \subseteq DOMAIN notifications'
       /\ \A u \in Users :
            LET a == Serials(notifications, u)
                b == Serials(notifications', u)
            IN \/ b = a
               \/ /\ Len(hist'.calls) = Len(hist.calls) + 1
                  /\ LET c == hist'.calls[Len(hist'.calls)] IN
                     /\ c.user_id = u
                     /\ c.persistent
                     /\ \/ (Len(a) < MaxStored /\ b = Append(a, c.serial))
                        \/ (Len(a) = MaxStored /\ b = Append(Tail(a), c.serial))]_vars

\* The store of user 1 is full and has evicted its oldest entries, and the
\* read-set still holds the identifier of an evicted notification.
C29_Witness ==
    /\ Len(Stored(1)) = MaxStored
    /\ Stored(1)[1].serial > 1
    /\ 1 \in DOMAIN read_notifications
    /\ NotificationId(0, 1) \in read_notifications[1]
    /\ NotificationId(0, 1) \notin StoredIds(1)
    /\ hist.marks # <<>>

\* C30: once disconnect(handle) has taken effect the core never again sends
\* a message on that handle, and the handle's own session never again
\* changes the registry or the store, under any interleaving.
C30_NothingAfterDisconnect ==
    [][\A h \in Handles :
         h \in hist.disconnected
         => /\ outbox'[h] = outbox[h]
            /\ task'[h] # task[h] => UNCHANGED <<Registry, Store>>]_vars

\* The session on h reads a frame with this type tag.
Dispatches(h, tag) ==
    task[h].pc = "receive" /\ task'[h].received = Append(task[h].received, tag)

\* C31: an inbound ping produces exactly one pong reply carrying the ping's
\* timestamp, and an inbound get_unread_count exactly one unread_count reply
\* whose count is the user's current unread count; the reply goes only to the
\* handle that sent the request, and neither the dispatch nor the reply
\* changes the subscriptions, the stored notifications or the read-sets.  (A
\* reply whose send fails is not delivered.)
C31_PingAndCountReplies ==
    [][\A h \in Handles :
         /\ Dispatches(h, "ping")
            => /\ task'[h].pc = "send_personal"
               /\ task'[h].msg = PongMsg(task[h].inbound + 1)
               /\ task'[h].ws = h /\ task'[h].cont = "receive"
               /\ UNCHANGED <<subscriptions, sub_keys, Store, outbox>>
         /\ Dispatches(h, "get_unread_count")
            => /\ task'[h].pc = "send_personal"
               /\ task'[h].msg = CountMsg(get_unread_count(notifications,
                                     read_notifications, task[h].user_id))
               /\ task'[h].ws = h /\ task'[h].cont = "receive"
               /\ UNCHANGED <<subscriptions, sub_keys, Store, outbox>>
         /\ (/\ task[h].pc = "send_personal"
             /\ task[h].msg.type \in {"pong", "unread_count"}
             /\ task'[h] # task[h])
            => /\ outbox' = IF transport[h] = "open"
                            THEN [outbox EXCEPT ![h] = Append(@, task[h].msg)]
                            ELSE outbox
               /\ task'[h].pc = "receive"
               /\ UNCHANGED <<subscriptions, sub_keys, Store>>]_vars

\* User 1 has two handles; h1 has sent a ping and then get_unread_count while
\* one notification was unread, and has both replies; h2 has neither.
C31_Witness ==
    /\ HandlesOf(1) = <<"h2", "h1">>
    /\ task["h1"].received = <<"ping", "get_unread_count">>
    /\ task["h1"].pc = "receive"
    /\ Len(outbox["h1"]) >= 2
    /\ outbox["h1"][Len(outbox["h1"]) - 1] = PongMsg(1)
    /\ outbox["h1"][Len(outbox["h1"])] = CountMsg(1)
    /\ \A k \in 1..Len(outbox["h2"]) : outbox["h2"][k] \notin {PongMsg(1), CountMsg(1)}

\* The position in user u's stored sequence of the notification with this
\* serial (0 when it is not stored).
StorePos(u, serial) ==
    LET ps == {j \in 1..Len(Stored(u)) : Stored(u)[j].serial = serial}
    IN IF ps = {} THEN 0 ELSE CHOOSE j \in ps : TRUE

\* The serials of the send_notification calls made for user u, in call order.
CallSerials(u) ==
    LET l == SelectSeq(hist.calls, LAMBDA c : c.user_id = u)
    IN [i \in 1..Len(l) |-> l[i].serial]

OriginatorType(kind) ==
    IF kind = "event" THEN "event_invite"
    ELSE IF kind = "spot" THEN "spot_update" ELSE "shop_update"

\* C32: a list-based originator makes exactly one send per element of its
\* recipient list, in list order, each independent of the others: the calls
\* an originator has made so far are a prefix of its list, and once it has
\* returned there is one call per element; every call stores one
\* notification of the originator's type for its recipient, so a user has one
\* stored notification per occurrence in the lists and a user outside the
\* lists none; a recipient whose only handle was registered at the call and is
\* open has the notification on that handle once, whatever happened to the
\* handles of the recipients before it; a handle of a user the notification
\* was not sent to does not carry it.
C32_OriginatorFanOut ==
    /\ \A k \in 1..Len(hist.fanouts) :
          LET f == hist.fanouts[k]
              last == IF k < Len(hist.fanouts) THEN hist.fanouts[k + 1].first - 1
                      ELSE Len(hist.calls)
              n == last - f.first + 1
          IN /\ n >= 0 /\ n <= Len(f.ids)
             /\ f.done => n = Len(f.ids)
             /\ k < Len(hist.fanouts) => f.done
             /\ \A i \in 1..n :
                   LET c == hist.calls[f.first + i - 1] IN
                   /\ c.user_id = f.ids[i]
                   /\ c.serial = f.first + i - 1
                   /\ c.persistent
                   /\ f.done => c.done
                   /\ StorePos(c.user_id, c.serial) > 0
                   /\ Stored(c.user_id)[StorePos(c.user_id, c.serial)].type
                         = OriginatorType(f.kind)
                   /\ \A h \in Handles :
                         /\ (c.handles = <<h>> /\ transport[h] = "open"
                             /\ (f.done \/ i < n))
                            => Cardinality(Pushes(h, c.serial)) = 1
                         /\ task[h].user_id # f.ids[i] => Pushes(h, c.serial) = {}
    /\ \A u \in Users :
          /\ Serials(notifications, u) = CallSerials(u)
          /\ (\A k \in 1..Len(hist.fanouts) :
                  \A i \in 1..Len(hist.fanouts[k].ids) : hist.fanouts[k].ids[i] # u)
             => u \notin DOMAIN notifications

\* The originator was called with the list <<1, 0>> and has returned: the send
\* to user 1's handle h2 failed, and user 0 has the notification stored and
\* pushed on h1.
C32_Witness ==
    /\ Len(hist.fanouts) = 1
    /\ hist.fanouts[1].done
    /\ hist.fanouts[1].ids = <<1, 0>>
    /\ hist.calls[1].handles = <<"h2">>
    /\ Pushes("h2", 1) = {}
    /\ "h2" \in hist.disconnected
    /\ Cardinality(Pushes("h1", 2)) = 1
    /\ Len(Stored(0)) = 1 /\ Len(Stored(1)) = 1

\* The user the frame the task p is sending is about: the user_id argument of
\* send_to_user, or the user of the session that replies on its own handle.
Addressee(p) == IF task[p].pc = "send_to_user" THEN task[p].to ELSE task[p].user_id

\* The users whose notifications the frame m carries.
Owners(m) ==
    IF m.fields = "notification" THEN {m.body.id[2]}
    ELSE IF m.fields = "recent_notifications"
    THEN {m.body[k].id[2] : k \in 1..Len(m.body)}
    ELSE {}

\* C33: a notification, unread_count, unread_count_updated or
\* recent_notifications frame about user U is only ever sent on a handle that
\* is registered under U when it is sent: every step that puts such a frame
\* on a handle h is a send of a task whose message is for the user h is
\* registered under, in the reverse map and in that user's handle collection,
\* and the notifications the frame carries are that user's.
C33_PrivateFramesStayWithUser ==
    [][\A h \in Handles :
         Len(outbox'[h]) > Len(outbox[h])
         => LET m == outbox'[h][Len(outbox'[h])] IN
            m.fields \in PrivateKinds
            => /\ h \in DOMAIN user_sessions
               /\ ListHas(HandlesOf(user_sessions[h]), h)
               /\ \A u \in Users \ {user_sessions[h]} : ~ListHas(HandlesOf(u), h)
               /\ \E p \in Procs : /\ task'[p] # task[p]
                                   /\ task[p].msg = m
                                   /\ Addressee(p) = user_sessions[h]
               /\ Owners(m) \subseteq {user_sessions[h]}]_vars

\* User 0 and user 1 are connected side by side; user 1 has been sent a
\* notification, which its handle h2 carries, and has had its counts; h1, of
\* user 0, carries no frame of user 1.
C33_Witness ==
    /\ HandlesOf(0) = <<"h1">> /\ HandlesOf(1) = <<"h2">>
    /\ Len(hist.calls) = 1 /\ hist.calls[1].user_id = 1
    /\ Cardinality(Pushes("h2", 1)) = 1
    /\ \E k \in 1..Len(outbox["h2"]) : outbox["h2"][k].fields = "unread_count_updated"
    /\ Len(outbox["h1"]) > 0
    /\ \A k \in 1..Len(outbox["h1"]) : outbox["h1"][k].fields = "unread_count"

\* C34: disconnect, subscribe and unsubscribe treat every registered handle
\* alike whatever the value of its owner's identity, 0 included: a handle
\* that disconnect was called for is in neither the reverse map nor any
\* user's handle collection, and a user none of whose handles is left is not
\* connected; a subscribe read on a registered handle puts the channel in the
\* owner's subscription set, and an unsubscribe takes it out.
C34_EveryIdentityAlike ==
    /\ [](\A h \in hist.disconnected :
             /\ h \notin DOMAIN user_sessions
             /\ ~InSomeList(h)
             /\ \A u \in Users :
                   (\A g \in hist.registered \ hist.disconnected : task[g].user_id # u)
                   => ~is_user_connected(World, u))
    /\ [][\A h \in Handles :
            /\ (Dispatches(h, "subscribe") /\ h \in DOMAIN user_sessions)
               => "shop_42" \in subscriptions'[user_sessions[h]]
            /\ (Dispatches(h, "unsubscribe") /\ h \in DOMAIN user_sessions)
               => "shop_42" \notin subscriptions'[user_sessions[h]]]_vars

\* C35: broadcast_to_channel, interleaved with connects of users that have no
\* subscriptions entry yet and with subscribe/unsubscribe calls of other
\* sessions, never raises, and once it has returned the message is on the
\* open handle of every user whose subscription set contained the channel
\* throughout the call (stated for a user with one handle, registered before
\* the call and still registered, none of whose sessions has unsubscribed).
C35_BroadcastCompletes ==
    \A i \in 1..Len(hist.bcalls) :
        LET c == hist.bcalls[i] IN
        /\ ~c.raised
        /\ c.done =>
              \A u \in c.users, h \in Handles :
                  (/\ DictGet(c.handles, u, <<>>) = <<h>>
                   /\ HandlesOf(u) = <<h>>
                   /\ h \notin hist.disconnected
                   /\ transport[h] = "open"
                   /\ c.channel \in subscriptions[u]
                   /\ \A k \in 1..Len(task[h].received) : task[h].received[k] # "unsubscribe")
                  => Received(h, c) # {}

\* The places (user, position) of the connection map that hold handle h.
Places(h) ==
    {<<u, i>> \in (DOMAIN active_connections) \X (1..Cardinality(Handles)) :
        i <= Len(active_connections[u]) /\ active_connections[u][i] = h}

\* C36: in every reachable state each handle occurs at most once across all
\* handle collections of the connection map, so that get_connection_count
\* equals the number of keys of the reverse map.
C36_HandleOccursOnce ==
    /\ \A h \in Handles : Cardinality(Places(h)) <= 1
    /\ get_connection_count(World) = Cardinality(DOMAIN user_sessions)

\* C37: of two send_notification calls to the same connected user that run
\* concurrently, every handle of the user receives the notification frames in
\* the order in which the notifications were appended to the user's stored
\* sequence.
C37_DeliveryFollowsStoreOrder ==
    \A h \in Handles :
        \A k1, k2 \in 1..Len(outbox[h]) :
            k1 < k2 => StorePos(1, outbox[h][k1].body.serial)
                          < StorePos(1, outbox[h][k2].body.serial)

\* C38: an inbound mark_notification_read on a connection authenticated as
\* user U changes only U's read-set, whatever identifier it carries (a
\* string that names a notification of any user, or a json array): the
\* dispatch leaves every other user's read-set, the stored notifications and
\* the registry as they are, and the sends of the unread_count_updated frame
\* that follow change nothing of the store, and nothing of the registry
\* unless a send fails.
C38_MarkChangesOwnReadSetOnly ==
    [][\A h \in Handles :
         /\ (\/ Dispatches(h, "mark_notification_read")
             \/ Dispatches(h, "unhashable_notification_id"))
            => LET u == task[h].user_id IN
               /\ UNCHANGED <<notifications, Registry>>
               /\ ReadSet(u) \subseteq ReadSet(u)'
               /\ \A v \in Users \ {u} : ReadSet(v)' = ReadSet(v)
         /\ (/\ task[h].pc = "send_to_user"
             /\ task[h].msg.type = "unread_count_updated"
             /\ task'[h] # task[h])
            => /\ UNCHANGED Store
               /\ (transport[task[h].cur] = "open" /\ task[h].failed = <<>>)
                  => UNCHANGED Registry]_vars

\* The frames of the given kind on handle h.
FramesOf(h, kind) == {k \in 1..Len(outbox[h]) : outbox[h][k].fields = kind}

\* The session on h has gone through its start-up on a connection that is
\* still registered and open and waits for its first inbound frame; every
\* notification of its user was stored while the user was offline, and none
\* is marked read.
Flushed(h) ==
    /\ task[h].pc = "receive" /\ task[h].inbound = 0
    /\ h \in hist.registered \ hist.disconnected
    /\ transport[h] = "open"
    /\ \A i \in 1..Len(hist.calls) :
          hist.calls[i].user_id = task[h].user_id
          => hist.calls[i].persistent /\ ~hist.calls[i].connected
    /\ DictGet(read_notifications, task[h].user_id, {}) = {}

\* C39: the pending-notification flush of a connecting handle goes through
\* send_to_user, so every live handle of the user receives it: the new
\* handle has the unread_count frame with the user's count and, when the user
\* has a stored notification, the recent_notifications frame (none when
\* there is nothing stored, the count then being 0); a handle of the user
\* that was registered before and is still live has these frames a second
\* time, after those of its own flush.
C39_FlushReachesEveryHandle ==
    \A h \in Handles :
        Flushed(h) =>
            LET u == task[h].user_id
                n == Len(Stored(u))
            IN /\ FramesOf(h, "unread_count") # {}
               /\ \A k \in FramesOf(h, "unread_count") : outbox[h][k] = CountMsg(n)
               /\ n > 0 => FramesOf(h, "recent_notifications") # {}
               /\ n = 0 => FramesOf(h, "recent_notifications") = {}
               /\ \A g \in Handles \ {h} :
                     (Flushed(g) /\ HandlesOf(u) = <<g, h>>)
                     => /\ Cardinality(FramesOf(g, "unread_count")) >= 2
                        /\ n > 0 => Cardinality(FramesOf(g, "recent_notifications")) >= 2

====
